---- MODULE Spec2Model ----
(***************************************************************************)
(* Model of propstreet/reviewer: the diff position mapper, the prompt       *)
(* packer, the review poster and the run that chains them.                 *)
(*                                                                         *)
(* findPositionInDiff (the dual-side variant and the side-less legacy      *)
(* variant) is a pure function of a patch string, a target line and a      *)
(* side.  Strings are sequences of one-character strings so that           *)
(* String.split, String.startsWith, the hunk-header regular expression,    *)
(* parseInt and the template literals of the packer and the poster are     *)
(* computed the way the code computes them.                                *)
(*                                                                         *)
(* Spec and SpecHunks exercise the mapper alone; SpecPack is buildPrompt,  *)
(* SpecRoute is postReviewComments and SpecRun is review() under run()     *)
(* with failing external calls.                                            *)
(***************************************************************************)
EXTENDS Integers, Sequences, FiniteSets, TLC

VARIABLES
  \* the mapper's arguments and results
  patch, targetLine, side, result, legacyResult,
  \* the position of the run
  pc,
  \* what the collaborators hold: the pull request, the commits of the
  \* comparison with their details, the completion the model will give
  prDetails, commits, completion,
  \* the inputs and the environment of run() and the options of each call of
  \* review
  env, reviewed,
  \* ReviewOptions
  tokenLimit, changesThreshold,
  \* buildPrompt's locals
  prompt, packedCommits, packLog,
  \* postReviewComments' argument, locals and return value
  comments, commentsByCommit, issueComments, allChanges, allComments,
  cursor, returned,
  \* the external calls issued so far and the messages given to setFailed
  calls, failed

mapperVars == <<patch, targetLine, side, result, legacyResult>>

inputVars ==
  <<prDetails, commits, completion, env, reviewed, tokenLimit,
    changesThreshold>>

packerVars == <<prompt, packedCommits, packLog>>

routerVars ==
  <<comments, commentsByCommit, issueComments, allChanges, allComments,
    cursor, returned>>

reviewVars == <<inputVars, packerVars, routerVars, calls, failed>>

vars == <<mapperVars, pc, reviewVars>>

\* ------------------------------------------------------------------ bounds
\* longest patch, in lines, that Init draws
MaxLines == 3
\* longest patch, in lines, that InitHunks draws
MaxHunkLines == 4
\* largest target line that Init draws (the smallest is -1)
MaxTarget == 5

\* ------------------------------------------------------- string primitives
NL == "\n"

Digits == {"0", "1", "2", "3", "4", "5", "6", "7", "8", "9"}

DigitVal(c) ==
  CASE c = "0" -> 0 [] c = "1" -> 1 [] c = "2" -> 2 [] c = "3" -> 3
    [] c = "4" -> 4 [] c = "5" -> 5 [] c = "6" -> 6 [] c = "7" -> 7
    [] c = "8" -> 8 [] c = "9" -> 9

\* String.prototype.startsWith
StartsWith(s, p) == Len(s) >= Len(p) /\ SubSeq(s, 1, Len(p)) = p

\* index of the first "\n" of s at or after k, 0 when there is none
RECURSIVE IndexOfNL(_, _)
IndexOfNL(s, k) ==
  IF k > Len(s) THEN 0 ELSE IF s[k] = NL THEN k ELSE IndexOfNL(s, k + 1)

\* String.prototype.split("\n"): always at least one piece, "" splits to [""]
RECURSIVE Split(_)
Split(s) ==
  LET i == IndexOfNL(s, 1)
  IN  IF i = 0 THEN <<s>>
      ELSE <<SubSeq(s, 1, i - 1)>> \o Split(SubSeq(s, i + 1, Len(s)))

\* parseInt(digits, 10) of the digit run s[a..b]
RECURSIVE ParseInt(_, _, _)
ParseInt(s, a, b) ==
  IF a > b THEN 0 ELSE ParseInt(s, a, b - 1) * 10 + DigitVal(s[b])

\* the literal lit occurs in s at index k
LitAt(s, k, lit) ==
  k + Len(lit) - 1 <= Len(s) /\ SubSeq(s, k, k + Len(lit) - 1) = lit

\* \d+ from index k, greedy: index of the last digit of the run, k-1 if none
DigitRunEnd(s, k) ==
  LET ends == {e \in (k - 1)..Len(s) : \A j \in k..e : s[j] \in Digits}
  IN  CHOOSE e \in ends : \A f \in ends : f <= e

\* (?:,(\d+))? from index k: the index just after the group
OptCount(s, k) ==
  IF k <= Len(s) /\ s[k] = "," /\ DigitRunEnd(s, k + 1) >= k + 1
  THEN DigitRunEnd(s, k + 1) + 1
  ELSE k

NoMatch == [ok |-> FALSE, oldStart |-> 0, newStart |-> 0]

\* /@@ -(\d+)(?:,(\d+))? \+(\d+)(?:,(\d+))? @@/ tried at index k
MatchAt(s, k) ==
  IF ~LitAt(s, k, <<"@", "@", " ", "-">>) THEN NoMatch
  ELSE LET e1 == DigitRunEnd(s, k + 4)
           k2 == OptCount(s, e1 + 1)
       IN  IF e1 < k + 4 \/ ~LitAt(s, k2, <<" ", "+">>) THEN NoMatch
           ELSE LET e3 == DigitRunEnd(s, k2 + 2)
                    k4 == OptCount(s, e3 + 1)
                IN  IF e3 < k2 + 2 \/ ~LitAt(s, k4, <<" ", "@", "@">>)
                    THEN NoMatch
                    ELSE [ok |-> TRUE,
                          oldStart |-> ParseInt(s, k + 4, e1),
                          newStart |-> ParseInt(s, k2 + 2, e3)]

\* line.match(/@@ -(\d+)(?:,(\d+))? \+(\d+)(?:,(\d+))? @@/): leftmost match
HunkHeaderMatch(s) ==
  IF \E k \in 1..Len(s) : MatchAt(s, k).ok
  THEN MatchAt(s, CHOOSE k \in 1..Len(s) :
                    MatchAt(s, k).ok /\ \A j \in 1..(k - 1) : ~MatchAt(s, j).ok)
  ELSE NoMatch

AtAtSpace == <<"@", "@", " ">>

\* ------------------------------------------ findPositionInDiff (dual side)
\* side: "LEFT" | "RIGHT"
Sides == {"LEFT", "RIGHT"}

NotFound == [found |-> FALSE, pos |-> 0]

Found(p) == [found |-> TRUE, pos |-> p]

\* the locals of the scan before the loop
InitialScan ==
  [trackedOldLine |-> 0, trackedNewLine |-> 0,
   hasFoundFirstHunk |-> FALSE, firstHunkLineIndex |-> -1]

\* HunkHeaderStep with the zero point overwritten by every hunk header
HunkHeaderStepKeepLast(st, line, i) ==
  LET match == HunkHeaderMatch(line)
  IN  IF match.ok
      THEN [trackedOldLine |-> match.oldStart - 1,
            trackedNewLine |-> match.newStart - 1,
            hasFoundFirstHunk |-> TRUE,
            firstHunkLineIndex |-> i]
      ELSE st

\* HunkHeaderStep with a header that fails to parse still opening the diff
HunkHeaderStepLenient(st, line, i) ==
  LET match == HunkHeaderMatch(line)
  IN  [trackedOldLine |-> match.oldStart - 1,
       trackedNewLine |-> match.newStart - 1,
       hasFoundFirstHunk |-> TRUE,
       firstHunkLineIndex |->
         IF st.hasFoundFirstHunk THEN st.firstHunkLineIndex ELSE i]

\* a line that starts with "@@ ": parse it and, on a match, reset the counters
\* and record the first hunk header's index
HunkHeaderStep(st, line, i) ==
  LET match == HunkHeaderMatch(line)
  IN  IF match.ok
      THEN [trackedOldLine |-> match.oldStart - 1,
            trackedNewLine |-> match.newStart - 1,
            hasFoundFirstHunk |-> TRUE,
            firstHunkLineIndex |->
              IF st.hasFoundFirstHunk THEN st.firstHunkLineIndex ELSE i]
      ELSE st

\* AdvanceCounters with a deletion counted on both sides
AdvanceCountersDeletionBoth(st, line) ==
  IF StartsWith(line, <<" ">>) \/ StartsWith(line, <<"-">>)
  THEN [st EXCEPT !.trackedOldLine = @ + 1, !.trackedNewLine = @ + 1]
  ELSE IF StartsWith(line, <<"+">>)
  THEN [st EXCEPT !.trackedNewLine = @ + 1]
  ELSE st

\* AdvanceCounters with a context line counted on the new side only
AdvanceCountersContextNewOnly(st, line) ==
  IF StartsWith(line, <<" ">>) \/ StartsWith(line, <<"+">>)
  THEN [st EXCEPT !.trackedNewLine = @ + 1]
  ELSE IF StartsWith(line, <<"-">>)
  THEN [st EXCEPT !.trackedOldLine = @ + 1]
  ELSE st

\* a line after the first hunk header advances the counters by its prefix
AdvanceCounters(st, line) ==
  IF StartsWith(line, <<" ">>)
  THEN [st EXCEPT !.trackedOldLine = @ + 1, !.trackedNewLine = @ + 1]
  ELSE IF StartsWith(line, <<"-">>)
  THEN [st EXCEPT !.trackedOldLine = @ + 1]
  ELSE IF StartsWith(line, <<"+">>)
  THEN [st EXCEPT !.trackedNewLine = @ + 1]
  ELSE st

\* IsTargetHit with >= in place of ===
IsTargetHitAtLeast(st, target, sd) ==
  \/ sd = "LEFT" /\ st.trackedOldLine >= target
  \/ sd = "RIGHT" /\ st.trackedNewLine >= target

\* the check made after every line that follows the first hunk header
IsTargetHit(st, target, sd) ==
  \/ sd = "LEFT" /\ st.trackedOldLine = target
  \/ sd = "RIGHT" /\ st.trackedNewLine = target

\* PositionOf without the first hunk header's index taken off
PositionOfAbsolute(st, i) == i

\* the value returned on a hit at index i
PositionOf(st, i) == i - st.firstHunkLineIndex

\* BeforeFirstHunk with no line skipped
BeforeFirstHunkNever(st) == FALSE

\* lines are skipped until the first hunk header has been seen
BeforeFirstHunk(st) == ~st.hasFoundFirstHunk

\* the for loop from index i (zero-based, as in the code) with locals st
RECURSIVE ScanFrom(_, _, _, _, _)
ScanFrom(lines, i, st, target, sd) ==
  IF i >= Len(lines) THEN NotFound
  ELSE LET line == lines[i + 1]
       IN  IF StartsWith(line, AtAtSpace)
           THEN ScanFrom(lines, i + 1, HunkHeaderStep(st, line, i), target, sd)
           ELSE IF BeforeFirstHunk(st)
           THEN ScanFrom(lines, i + 1, st, target, sd)
           ELSE LET st2 == AdvanceCounters(st, line)
                IN  IF IsTargetHit(st2, target, sd)
                    THEN Found(PositionOf(st2, i))
                    ELSE ScanFrom(lines, i + 1, st2, target, sd)

findPositionInDiff(p, target, sd) ==
  ScanFrom(Split(p), 0, InitialScan, target, sd)

\* ------------------------------------- findPositionInDiff (legacy, no side)
LegacyInitialScan ==
  [trackedNewLine |-> 0, hasFoundFirstHunk |-> FALSE, firstHunkLineIndex |-> -1]

LegacyHunkHeaderStep(st, line, i) ==
  LET match == HunkHeaderMatch(line)
  IN  IF match.ok
      THEN [trackedNewLine |-> match.newStart - 1,
            hasFoundFirstHunk |-> TRUE,
            firstHunkLineIndex |->
              IF st.hasFoundFirstHunk THEN st.firstHunkLineIndex ELSE i]
      ELSE st

RECURSIVE LegacyScanFrom(_, _, _, _)
LegacyScanFrom(lines, i, st, newFileLine) ==
  IF i >= Len(lines) THEN NotFound
  ELSE LET line == lines[i + 1]
       IN  IF StartsWith(line, AtAtSpace)
           THEN LegacyScanFrom(lines, i + 1, LegacyHunkHeaderStep(st, line, i),
                               newFileLine)
           ELSE IF ~st.hasFoundFirstHunk
           THEN LegacyScanFrom(lines, i + 1, st, newFileLine)
           ELSE IF StartsWith(line, <<"+">>) \/ StartsWith(line, <<" ">>)
           THEN LET st2 == [st EXCEPT !.trackedNewLine = @ + 1]
                IN  IF st2.trackedNewLine = newFileLine
                    THEN Found(i - st2.firstHunkLineIndex)
                    ELSE LegacyScanFrom(lines, i + 1, st2, newFileLine)
           ELSE LegacyScanFrom(lines, i + 1, st, newFileLine)

findPositionInDiffLegacy(p, newFileLine) ==
  LegacyScanFrom(Split(p), 0, LegacyInitialScan, newFileLine)

\* ------------------------------------------------- the unified-diff format
\* What the lines of a patch mean in the unified-diff format, stated from the
\* format and independently of the scan: these definitions are what the
\* properties below compare the function's result with.
Kind(l) ==
  IF StartsWith(l, AtAtSpace) THEN "header"
  ELSE IF StartsWith(l, <<" ">>) THEN "context"
  ELSE IF StartsWith(l, <<"-">>) THEN "deletion"
  ELSE IF StartsWith(l, <<"+">>) THEN "addition"
  ELSE "other"

\* a line read as a line of a diff; isHeader: it is a hunk header
\* "@@ -oldStart[,n] +newStart[,n] @@"
LineInfo(l) ==
  LET m == IF StartsWith(l, AtAtSpace) THEN HunkHeaderMatch(l) ELSE NoMatch
  IN  [kind |-> Kind(l), isHeader |-> m.ok,
       oldStart |-> m.oldStart, newStart |-> m.newStart]

RECURSIVE Classify(_)
Classify(ls) ==
  IF Len(ls) = 0 THEN <<>> ELSE <<LineInfo(Head(ls))>> \o Classify(Tail(ls))

\* the lines of the patch, each read as a line of a diff
Lines == Classify(Split(patch))

HeaderIdx(ls) == {j \in 1..Len(ls) : ls[j].isHeader}

\* index of the first hunk header, 0 when the patch has none
FirstHeader(ls) ==
  IF HeaderIdx(ls) = {} THEN 0
  ELSE CHOOSE h \in HeaderIdx(ls) : \A g \in HeaderIdx(ls) : h <= g

\* the kinds of line that exist on a side
SideKinds(sd) ==
  IF sd = "LEFT" THEN {"context", "deletion"} ELSE {"context", "addition"}

\* line j lies inside a hunk
InHunk(ls, j) ==
  /\ FirstHeader(ls) # 0
  /\ j > FirstHeader(ls)
  /\ ls[j].kind # "header"

\* the header of the hunk that line j lies in
HunkOf(ls, j) ==
  CHOOSE h \in HeaderIdx(ls) :
    h < j /\ \A g \in HeaderIdx(ls) : g < j => g <= h

StartOf(l, sd) == IF sd = "LEFT" THEN l.oldStart ELSE l.newStart

\* how many lines of side sd the hunk with header h holds up to line j
SideCount(ls, h, j, sd) ==
  Cardinality({k \in (h + 1)..j : ls[k].kind \in SideKinds(sd)})

\* the number, in the numbering of side sd, of the last line of that side at
\* or before line j of its hunk
NumberAt(ls, j, sd) ==
  LET h == HunkOf(ls, j)
  IN  StartOf(ls[h], sd) - 1 + SideCount(ls, h, j, sd)

\* physical line j carries line number t on side sd
Carries(ls, j, sd, t) ==
  /\ InHunk(ls, j)
  /\ ls[j].kind \in SideKinds(sd)
  /\ NumberAt(ls, j, sd) = t

\* the hunks are in ascending order and do not overlap, on both sides: each
\* hunk starts after the last line of the hunk before it
WellFormed(ls) ==
  \A h \in HeaderIdx(ls) : \A sd \in Sides :
    h # FirstHeader(ls) =>
      StartOf(ls[h], sd) - 1 >= NumberAt(ls, h, sd)

\* ------------------------------------------------------------------ inputs
\* "diff": a metadata line; after a hunk header, a line that is no diff line
LineMeta == <<"d", "i", "f", "f">>
\* "@@ -1 +1 @@"
LineHunk1 == <<"@", "@", " ", "-", "1", " ", "+", "1", " ", "@", "@">>
\* "@@ -3,2 +4,2 @@"
LineHunk3 ==
  <<"@", "@", " ", "-", "3", ",", "2", " ", "+", "4", ",", "2", " ", "@", "@">>
\* "@@ -0,0 +1 @@": the header of a new file
LineHunk0 == <<"@", "@", " ", "-", "0", ",", "0", " ", "+", "1", " ", "@", "@">>
\* "@@ -x +y @@": starts like a hunk header, does not match the grammar
LineBogus == <<"@", "@", " ", "-", "x", " ", "+", "y", " ", "@", "@">>
\* " c", "-d", "+a": a context line, a deletion, an addition
LineContext == <<" ", "c">>
LineDeletion == <<"-", "d">>
LineAddition == <<"+", "a">>

LinePool ==
  {LineMeta, LineHunk1, LineHunk3, LineHunk0, LineBogus,
   LineContext, LineDeletion, LineAddition}

\* metadata lines that may precede the first hunk header:
\* "diff", "--- a", "+++ b" and " "
MetaLines ==
  {LineMeta, <<"-", "-", "-", " ", "a">>, <<"+", "+", "+", " ", "b">>, <<" ">>}

\* Array.prototype.join("\n")
RECURSIVE Join(_)
Join(ls) ==
  IF Len(ls) = 0 THEN <<>>
  ELSE IF Len(ls) = 1 THEN ls[1]
  ELSE ls[1] \o <<NL>> \o Join(Tail(ls))

\* the patches handed to the function: any lines, the hunks in ascending order
\* as the hosting platform returns them
Patches ==
  {Join(ls) : ls \in {x \in UNION {[1..n -> LinePool] : n \in 0..MaxLines} :
                        WellFormed(Classify(x))}}

\* patches made of hunk headers, diff lines and lines that are no diff lines
HunkLinePool ==
  {LineHunk1, LineHunk3, LineContext, LineDeletion, LineAddition, LineMeta}

HunkPatches ==
  {Join(ls) :
     ls \in {x \in UNION {[1..n -> HunkLinePool] : n \in 0..MaxHunkLines} :
              WellFormed(Classify(x))}}

Targets == (-1)..MaxTarget

\* ------------------------------------------------------------ state machine
\* run() is not part of the specification: no inputs, and review() is called
\* with options of the specification's choice
NoRun == env = <<>> /\ reviewed = <<>>

\* no review is running while the mapper is exercised alone
NoReview ==
  /\ prDetails = [title |-> <<>>, body |-> <<>>]
  /\ commits = <<>>
  /\ completion = [finish_reason |-> <<"s", "t", "o", "p">>, parsed |-> TRUE,
                  comments |-> <<>>]
  /\ NoRun
  /\ tokenLimit = 0
  /\ changesThreshold = "error"
  /\ prompt = <<>>
  /\ packedCommits = <<>>
  /\ packLog = <<>>
  /\ comments = <<>>
  /\ commentsByCommit = <<>>
  /\ issueComments = <<>>
  /\ allChanges = <<>>
  /\ allComments = <<>>
  /\ cursor = 0
  /\ returned = <<>>
  /\ calls = <<>>
  /\ failed = <<>>

Init ==
  /\ NoReview
  /\ patch \in Patches
  /\ targetLine \in Targets
  /\ side \in Sides
  /\ result = NotFound
  /\ legacyResult = NotFound
  /\ pc = "input"

\* the router's call: findPositionInDiff(patch, comment.line, comment.side)
CallFindPositionInDiff ==
  /\ pc = "input"
  /\ result' = findPositionInDiff(patch, targetLine, side)
  /\ pc' = "dual"
  /\ UNCHANGED <<patch, targetLine, side, legacyResult, reviewVars>>

\* the side-less call on the same patch and line
CallLegacy ==
  /\ pc = "dual"
  /\ legacyResult' = findPositionInDiffLegacy(patch, targetLine)
  /\ pc' = "both"
  /\ UNCHANGED <<patch, targetLine, side, result, reviewVars>>

\* the same request on the patch with one more metadata line in front
PrependMetadata ==
  /\ pc = "both"
  /\ \E m \in MetaLines :
       LET prepended == m \o <<NL>> \o patch
       IN  /\ patch' = prepended
           /\ result' = findPositionInDiff(prepended, targetLine, side)
           /\ legacyResult' = findPositionInDiffLegacy(prepended, targetLine)
  /\ pc' = "prepended"
  /\ UNCHANGED <<targetLine, side, reviewVars>>

Next == CallFindPositionInDiff \/ CallLegacy \/ PrependMetadata

Spec == Init /\ [][Next]_vars

\* the dual-side function alone, on longer patches of several hunks
InitHunks ==
  /\ NoReview
  /\ patch \in HunkPatches
  /\ targetLine \in Targets
  /\ side \in Sides
  /\ result = NotFound
  /\ legacyResult = NotFound
  /\ pc = "input"

NextHunks == CallFindPositionInDiff

SpecHunks == InitHunks /\ [][NextHunks]_vars

\* ------------------------------------------------------------------- text
\* the decimal text a template literal gives a number
DigitChar(n) == CHOOSE c \in Digits : DigitVal(c) = n

RECURSIVE NatToStr(_)
NatToStr(n) ==
  IF n < 10 THEN <<DigitChar(n)>>
  ELSE NatToStr(n \div 10) \o <<DigitChar(n % 10)>>

NumberToStr(n) == IF n < 0 THEN <<"-">> \o NatToStr(-n) ELSE NatToStr(n)

\* String.prototype.includes
Includes(text, sub) ==
  \E k \in 0..(Len(text) - Len(sub)) : SubSeq(text, k + 1, k + Len(sub)) = sub

\* ----------------------------------------------------------- prompt packer
\* `# ${prDetails.title}\n`, then `\n${prDetails.body}\n` when there is a body
PromptHeader(pr) ==
  <<"#", " ">> \o pr.title \o <<NL>> \o
  (IF pr.body # <<>> THEN <<NL>> \o pr.body \o <<NL>> ELSE <<>>)

\* `\n## COMMIT SHA: ${commit.sha}\n\n${commit.message}\n`
CommitHeading(commit) ==
  <<NL, "#", "#", " ", "C", "O", "M", "M", "I", "T", " ", "S", "H", "A", ":",
    " ">> \o commit.sha \o <<NL, NL>> \o commit.message \o <<NL>>

\* the code fence of three grave accents; a string of this module cannot
\* hold that character, which is written as a tilde
Fence == <<"~", "~", "~">>

\* `\n### FILE: ${p.filename}\n\n${Fence}diff\n${p.patch}\n${Fence}\n`
PatchBlock(p) ==
  <<NL, "#", "#", "#", " ", "F", "I", "L", "E", ":", " ">> \o p.filename \o
  <<NL, NL>> \o Fence \o <<"d", "i", "f", "f", NL>> \o p.patch \o
  <<NL>> \o Fence \o <<NL>>

\* the tokenizer counts one token for every character of the text
CountTokens(text) == Len(text)

\* false when the text has more tokens than the limit, else the token count
isWithinTokenLimit(text, limit) ==
  LET n == CountTokens(text)
  IN  IF n > limit THEN [within |-> FALSE, count |-> 0]
      ELSE [within |-> TRUE, count |-> n]

\* `!check` is true of false and of a count of 0
Falsy(check) == ~check.within \/ check.count = 0

\* a loop body that appends the block of a skipped patch all the same
PackPatchKeepSkipped(accumulated, st, p, limit) ==
  LET patchBlock == PatchBlock(p)
      check == isWithinTokenLimit(accumulated \o st.block \o patchBlock, limit)
  IN  IF Falsy(check)
      THEN [st EXCEPT !.block = @ \o patchBlock,
                      !.skippedPatches = Append(@, p)]
      ELSE [st EXCEPT !.block = @ \o patchBlock,
                      !.usedPatches = Append(@, p)]

\* a call of the tokenizer: what it was given and what it answered
Checked(text, limit, check) == [text |-> text, limit |-> limit, check |-> check]

\* a loop body that stops using patches once one was skipped
PackPatchStopAtSkip(accumulated, st, p, limit) ==
  LET patchBlock == PatchBlock(p)
      combinedPreview == accumulated \o st.block \o patchBlock
      check == isWithinTokenLimit(combinedPreview, limit)
  IN  IF Falsy(check) \/ Len(st.skippedPatches) # 0
      THEN [st EXCEPT !.skippedPatches = Append(@, p),
                      !.checks = Append(@, Checked(combinedPreview, limit,
                                                   check))]
      ELSE [st EXCEPT !.block = @ \o patchBlock,
                      !.usedPatches = Append(@, p),
                      !.checks = Append(@, Checked(combinedPreview, limit,
                                                   check))]

\* a loop body that measures the commit block without the prompt so far
PackPatchCommitOnly(accumulated, st, p, limit) ==
  LET patchBlock == PatchBlock(p)
      combinedPreview == st.block \o patchBlock
      check == isWithinTokenLimit(combinedPreview, limit)
  IN  IF Falsy(check)
      THEN [st EXCEPT !.skippedPatches = Append(@, p),
                      !.checks = Append(@, Checked(combinedPreview, limit,
                                                   check))]
      ELSE [st EXCEPT !.block = @ \o patchBlock,
                      !.usedPatches = Append(@, p),
                      !.checks = Append(@, Checked(combinedPreview, limit,
                                                   check))]

\* a loop body that forgets the patch it skips
PackPatchDropSkipped(accumulated, st, p, limit) ==
  LET patchBlock == PatchBlock(p)
      combinedPreview == accumulated \o st.block \o patchBlock
      check == isWithinTokenLimit(combinedPreview, limit)
  IN  IF Falsy(check)
      THEN [st EXCEPT !.checks = Append(@, Checked(combinedPreview, limit,
                                                   check))]
      ELSE [st EXCEPT !.block = @ \o patchBlock,
                      !.usedPatches = Append(@, p),
                      !.checks = Append(@, Checked(combinedPreview, limit,
                                                   check))]

\* the body of packCommit's loop over commit.patches
PackPatch(accumulated, st, p, limit) ==
  LET patchBlock == PatchBlock(p)
      combinedPreview == accumulated \o st.block \o patchBlock
      check == isWithinTokenLimit(combinedPreview, limit)
  IN  IF Falsy(check)
      THEN [st EXCEPT !.skippedPatches = Append(@, p),
                      !.checks = Append(@, Checked(combinedPreview, limit,
                                                   check))]
      ELSE [st EXCEPT !.block = @ \o patchBlock,
                      !.usedPatches = Append(@, p),
                      !.checks = Append(@, Checked(combinedPreview, limit,
                                                   check))]

RECURSIVE PackFrom(_, _, _, _, _)
PackFrom(accumulated, patches, i, st, limit) ==
  IF i > Len(patches) THEN st
  ELSE PackFrom(accumulated, patches, i + 1,
                PackPatch(accumulated, st, patches[i], limit), limit)

\* a packCommit that hands back a commit block even when no patch was used
PackedEvenIfEmpty(st) == TRUE

\* packCommit returns null when usedPatches is empty
PackedNotNull(st) == Len(st.usedPatches) # 0

\* "No patches fit within token limit."
NoPatchesFitWarning ==
  <<"N", "o", " ", "p", "a", "t", "c", "h", "e", "s", " ", "f", "i", "t", " ",
    "w", "i", "t", "h", "i", "n", " ", "t", "o", "k", "e", "n", " ", "l", "i",
    "m", "i", "t", ".">>

\* `${skippedPatches.length} patches did not fit within tokenLimit = ${tokenLimit}.`
DidNotFitWarning(skipped, limit) ==
  NumberToStr(skipped) \o
  <<" ", "p", "a", "t", "c", "h", "e", "s", " ", "d", "i", "d", " ", "n", "o",
    "t", " ", "f", "i", "t", " ", "w", "i", "t", "h", "i", "n", " ", "t", "o",
    "k", "e", "n", "L", "i", "m", "i", "t", " ", "=", " ">> \o
  NumberToStr(limit) \o <<".">>

\* what packCommit gives to core.warning after its loop
PackWarnings(st, limit) ==
  IF Len(st.usedPatches) = 0 THEN <<NoPatchesFitWarning>>
  ELSE IF Len(st.skippedPatches) > 0
  THEN <<DidNotFitWarning(Len(st.skippedPatches), limit)>>
  ELSE <<>>

packCommit(accumulated, commit, limit) ==
  LET st == PackFrom(accumulated, commit.patches, 1,
                     [heading |-> CommitHeading(commit),
                      block |-> CommitHeading(commit),
                      usedPatches |-> <<>>,
                      skippedPatches |-> <<>>,
                      checks |-> <<>>], limit)
  IN  [sha |-> commit.sha,
       packed |-> PackedNotNull(st),
       block |-> st.block,
       usedPatches |-> st.usedPatches,
       skippedPatches |-> st.skippedPatches,
       checks |-> st.checks,
       warnings |-> PackWarnings(st, limit)]


\* ------------------------------------------------------ the run's collaborators
\* most commits of a comparison and most patches of a commit that InitPack
\* draws
MaxCommits == 2
MaxPatches == 3

\* the sha of the i-th commit of the comparison
ShaOf(i) == <<"s", DigitChar(i)>>

PatchA == Join(<<LineHunk1, LineDeletion, LineAddition>>)
PatchG == Join(<<LineHunk1, LineContext, LineDeletion, LineAddition>>)
PatchH == Join(<<LineHunk0, LineAddition>>)

FileA == [filename |-> <<"a">>, patch |-> PatchA]
FileG == [filename |-> <<"g">>, patch |-> PatchG]
FileH == [filename |-> <<"h">>, patch |-> PatchH]

\* the files a commit may change, each with a patch that is not empty
PatchPool == {FileA, FileG, FileH}

\* the patches of one commit: one patch for a file
PatchLists ==
  {x \in UNION {[1..n -> PatchPool] : n \in 0..MaxPatches} :
     \A i, j \in 1..Len(x) : i # j => x[i].filename # x[j].filename}

\* CommitDetails of the i-th commit
CommitDetails(i, patches) ==
  [sha |-> ShaOf(i), message |-> <<"m">>, patches |-> patches]

CommitLists(n) ==
  {[i \in 1..n |-> CommitDetails(i, f[i])] : f \in [1..n -> PatchLists]}

\* the pull request: a title, and a body that may be empty
PrPool ==
  {[title |-> <<"T">>, body |-> <<>>], [title |-> <<"T">>, body |-> <<"B">>]}

\* token limits between which the patches of PatchPool start and stop to fit
TokenLimits == {0, 70, 72, 120, 140, 185, 400}

SeverityLevels == {"info", "warning", "error"}

\* ----------------------------------------------------------- external calls
NoThrow == [raised |-> FALSE, isError |-> FALSE, message |-> <<>>]

\* an external call that returned
Call(op, arg) == [op |-> op, arg |-> arg, thrown |-> NoThrow]

CallsOf(op) == {k \in 1..Len(calls) : calls[k].op = op}

\* the mapper is not exercised by itself during a review
NoMapperCall ==
  /\ patch = <<>>
  /\ targetLine = 0
  /\ side = "RIGHT"
  /\ result = NotFound
  /\ legacyResult = NotFound

\* the locals of postReviewComments before its first statement
PosterStart ==
  /\ commentsByCommit = <<>>
  /\ issueComments = <<>>
  /\ allChanges = <<>>
  /\ allComments = <<>>
  /\ cursor = 0
  /\ returned = <<>>

\* the locals of review() before its first statement
ReviewStart ==
  /\ prompt = <<>>
  /\ packedCommits = <<>>
  /\ packLog = <<>>
  /\ comments = <<>>
  /\ PosterStart
  /\ calls = <<>>
  /\ failed = <<>>

\* ------------------------------------------------------ review(): buildPrompt
\* review() goes on to the model only with a packed commit
AfterBuildPrompt(packedList) ==
  IF Len(packedList) = 0 THEN "done" ELSE "runReviewPrompt"

\* const prDetails = await this.githubService.getPrDetails()
GetPrDetails ==
  /\ pc = "getPrDetails"
  /\ calls' = Append(calls, Call("getPrDetails", <<>>))
  /\ pc' = "compareCommits"
  /\ UNCHANGED <<mapperVars, inputVars, packerVars, routerVars, failed>>

\* const results = await this.githubService.compareCommits(base, head); with
\* no commits buildPrompt returns null, else the prompt starts as the header
CompareCommits ==
  /\ pc = "compareCommits"
  /\ calls' = Append(calls, Call("compareCommits", <<>>))
  /\ IF Len(commits) = 0
     THEN /\ pc' = "done"
          /\ UNCHANGED prompt
     ELSE /\ pc' = "getCommitDetails"
          /\ prompt' = PromptHeader(prDetails)
  /\ UNCHANGED <<mapperVars, inputVars, packedCommits, packLog, routerVars,
                 failed>>

\* an append that parts the prompt and the block with a line break
AppendBlockOnNewLine(text, block) == text \o <<NL>> \o block

\* prompt += packed.block
AppendBlock(text, block) == text \o block

\* one turn of the loop over results.commits: getCommitDetails, packCommit,
\* and either the break or the append to prompt and packedCommits
GetCommitDetails ==
  /\ pc = "getCommitDetails"
  /\ LET i == Len(packLog) + 1
         commitDetails == commits[i]
         packed == packCommit(prompt, commitDetails, tokenLimit)
         packedList ==
           IF packed.packed
           THEN Append(packedCommits,
                       [commit |-> commitDetails,
                        patches |-> packed.usedPatches])
           ELSE packedCommits
     IN  /\ calls' = Append(calls, Call("getCommitDetails", commitDetails.sha))
         /\ packLog' = Append(packLog, packed)
         /\ packedCommits' = packedList
         /\ prompt' = IF packed.packed THEN AppendBlock(prompt, packed.block)
                      ELSE prompt
         /\ pc' = IF packed.packed /\ i < Len(commits)
                  THEN "getCommitDetails"
                  ELSE AfterBuildPrompt(packedList)
  /\ UNCHANGED <<mapperVars, inputVars, routerVars, failed>>

\* buildPrompt on every comparison and token limit
InitPack ==
  /\ NoMapperCall
  /\ prDetails \in PrPool
  /\ commits \in UNION {CommitLists(n) : n \in 0..MaxCommits}
  /\ NoRun
  /\ tokenLimit \in TokenLimits
  /\ changesThreshold = "error"
  /\ completion = [finish_reason |-> <<"s", "t", "o", "p">>, parsed |-> TRUE,
                  comments |-> <<>>]
  /\ ReviewStart
  /\ pc = "getPrDetails"

NextPack == GetPrDetails \/ CompareCommits \/ GetCommitDetails

SpecPack == InitPack /\ [][NextPack]_vars


\* --------------------------------------------------------- review poster
\* const severityOrder = ["info", "warning", "error"]
severityOrder == <<"info", "warning", "error">>

\* Array.prototype.indexOf, counted from 0, -1 when absent
IndexOf(seq, x) ==
  IF \E k \in 1..Len(seq) : seq[k] = x
  THEN (CHOOSE k \in 1..Len(seq) :
          seq[k] = x /\ \A j \in 1..(k - 1) : seq[j] # x) - 1
  ELSE -1

\* the index Array.prototype.find stops at: the least of the indices that
\* pass the test, 0 when none does
FirstIndex(S) == IF S = {} THEN 0 ELSE CHOOSE k \in S : \A j \in S : k <= j

\* a verification that is content with a patch for the file
verifyCommentLineInPatchFileOnly(filename, line, sd, patches) ==
  FirstIndex({k \in 1..Len(patches) : patches[k].filename = filename}) # 0

\* verifyCommentLineInPatch: the file has a patch and the mapper finds the line
verifyCommentLineInPatch(filename, line, sd, patches) ==
  LET target ==
        FirstIndex({k \in 1..Len(patches) : patches[k].filename = filename})
  IN  IF target = 0 THEN FALSE
      ELSE findPositionInDiff(patches[target].patch, line, sd).found

\* a search that settles for the first commit whatever its sha
FindCommitAny(commitList, sha) == IF Len(commitList) = 0 THEN 0 ELSE 1

\* commits.find((d) => d.commit.sha === c.sha)
FindCommit(commitList, sha) ==
  FirstIndex({k \in 1..Len(commitList) : commitList[k].commit.sha = sha})

\* a search that never finds the group of a sha
FindGroupNever(groups, sha) == 0

\* acc.find((g) => g.sha === c.sha)
FindGroup(groups, sha) ==
  FirstIndex({k \in 1..Len(groups) : groups[k].sha = sha})

\* the patches of the commit itself, those the packer skipped among them
PatchesOfCommit(packedCommit) == packedCommit.commit.patches

\* commit.patches of a PackedCommit: the patches packed into the prompt
PatchesOf(packedCommit) == packedCommit.patches

\* a callback that puts a new group in front of the groups it has
RouteCommentNewGroupFirst(acc, c, commitList) ==
  LET commit == FindCommit(commitList, c.sha)
  IN  IF commit = 0
      THEN [acc EXCEPT !.issueComments = Append(@, c)]
      ELSE IF ~verifyCommentLineInPatch(c.file, c.line, c.side,
                                        PatchesOf(commitList[commit]))
      THEN [acc EXCEPT !.issueComments = Append(@, c)]
      ELSE LET group == FindGroup(acc.commentsByCommit, c.sha)
           IN  IF group # 0
               THEN [acc EXCEPT
                       !.commentsByCommit[group].comments = Append(@, c)]
               ELSE [acc EXCEPT
                       !.commentsByCommit =
                          <<[sha |-> c.sha,
                             commit |-> commitList[commit],
                             comments |-> <<c>>]>> \o @]

\* the callback of comments.reduce: one comment into its group or into the
\* fallback list
RouteComment(acc, c, commitList) ==
  LET commit == FindCommit(commitList, c.sha)
  IN  IF commit = 0
      THEN [acc EXCEPT !.issueComments = Append(@, c)]
      ELSE IF ~verifyCommentLineInPatch(c.file, c.line, c.side,
                                        PatchesOf(commitList[commit]))
      THEN [acc EXCEPT !.issueComments = Append(@, c)]
      ELSE LET group == FindGroup(acc.commentsByCommit, c.sha)
           IN  IF group # 0
               THEN [acc EXCEPT
                       !.commentsByCommit[group].comments = Append(@, c)]
               ELSE [acc EXCEPT
                       !.commentsByCommit =
                          Append(@, [sha |-> c.sha,
                                     commit |-> commitList[commit],
                                     comments |-> <<c>>])]

RECURSIVE RouteFrom(_, _, _, _)
RouteFrom(acc, cs, i, commitList) ==
  IF i > Len(cs) THEN acc
  ELSE RouteFrom(RouteComment(acc, cs[i], commitList), cs, i + 1, commitList)

\* comments.reduce(..., []) with the issueComments it fills on the way
GroupByCommit(cs, commitList) ==
  RouteFrom([commentsByCommit |-> <<>>, issueComments |-> <<>>], cs, 1,
            commitList)

\* a threshold that the severity has to exceed
MeetsThresholdStrict(c, threshold) ==
  IndexOf(severityOrder, c.severity) > IndexOf(severityOrder, threshold)

\* severityOrder.indexOf(c.severity) >= thresholdIndex
MeetsThreshold(c, threshold) ==
  IndexOf(severityOrder, c.severity) >= IndexOf(severityOrder, threshold)

\* group.comments.filter(... >= thresholdIndex)
GroupChanges(group, threshold) ==
  LET Meets(c) == MeetsThreshold(c, threshold)
  IN  SelectSeq(group.comments, Meets)

\* a remainder that keeps the comments of groupChanges as well
RemainingCommentsAll(group, groupChanges) == group.comments

\* group.comments.filter((c) => !groupChanges.includes(c))
RemainingComments(group, groupChanges) ==
  LET NotIn(c) == \A k \in 1..Len(groupChanges) : groupChanges[k] # c
  IN  SelectSeq(group.comments, NotIn)

SideText(sd) ==
  IF sd = "LEFT" THEN <<"L", "E", "F", "T">> ELSE <<"R", "I", "G", "H", "T">>

\* a body that leaves the side out
IssueCommentBodyNoSide(c) ==
  <<"C", "o", "m", "m", "e", "n", "t", " ", "o", "n", " ", "l", "i", "n", "e",
    " ">> \o NumberToStr(c.line) \o
  <<" ", "o", "f", " ", "f", "i", "l", "e", " ">> \o c.file \o <<":", " ">> \o
  c.comment

\* `Comment on line ${line} (${side}) of file ${file}: ${comment}`
IssueCommentBody(c) ==
  <<"C", "o", "m", "m", "e", "n", "t", " ", "o", "n", " ", "l", "i", "n", "e",
    " ">> \o NumberToStr(c.line) \o <<" ", "(">> \o SideText(c.side) \o
  <<")", " ", "o", "f", " ", "f", "i", "l", "e", " ">> \o c.file \o
  <<":", " ">> \o c.comment

\* review.map((c) => ({path: c.file, line: c.line, side: c.side, body: c.comment}))
ReviewPayload(review) ==
  [k \in 1..Len(review) |->
     [path |-> review[k].file, line |-> review[k].line,
      side |-> review[k].side, body |-> review[k].comment]]

\* the arguments of octokit.rest.pulls.createReview
CreateReviewCall(event, review, sha) ==
  Call("createReview",
       [commit_id |-> sha, event |-> event, comments |-> ReviewPayload(review)])

\* the position after the group at index k - 1: the next group or the fallback
\* loop
AfterGroup(groups, k) ==
  IF k <= Len(groups) THEN "groupChanges" ELSE "createComment"


\* ------------------------------------------- review(): the model and the poster
FinishStop == <<"s", "t", "o", "p">>
FinishLength == <<"l", "e", "n", "g", "t", "h">>

\* `Review request did not finish, got ${finish_reason}`
FinishMessage(reason) ==
  <<"R", "e", "v", "i", "e", "w", " ", "r", "e", "q", "u", "e", "s", "t", " ",
    "d", "i", "d", " ", "n", "o", "t", " ", "f", "i", "n", "i", "s", "h", ",",
    " ", "g", "o", "t", " ">> \o reason

\* a client that takes every completion for finished
FinishedAlways(c) == TRUE

\* completion.choices[0].finish_reason === "stop"
Finished(c) == c.finish_reason = FinishStop

\* a review() that hands whatever came back to postReviewComments
NoSuggestionsNever(c) == FALSE

\* !response?.comments || response.comments.length === 0
NoSuggestions(c) == ~c.parsed \/ Len(c.comments) = 0

UnknownError ==
  <<"A", "n", " ", "u", "n", "k", "n", "o", "w", "n", " ", "e", "r", "r", "o",
    "r", " ", "o", "c", "c", "u", "r", "r", "e", "d", ".">>

\* run()'s catch: setFailed(err.message) for an Error, a fixed text otherwise
SetFailedMessage(err) == IF err.isError THEN err.message ELSE UnknownError

\* runReviewPrompt, which throws on a finish reason other than stop; review()
\* returns when there are no comments, else hands them to postReviewComments
RunReviewPrompt ==
  /\ pc = "runReviewPrompt"
  /\ calls' = Append(calls, Call("runReviewPrompt", prompt))
  /\ IF ~Finished(completion)
     THEN /\ failed' = Append(failed, SetFailedMessage(
                 [raised |-> TRUE, isError |-> TRUE,
                  message |-> FinishMessage(completion.finish_reason)]))
          /\ pc' = "done"
          /\ UNCHANGED comments
     ELSE IF NoSuggestions(completion)
     THEN /\ pc' = "done"
          /\ UNCHANGED <<comments, failed>>
     ELSE /\ comments' = completion.comments
          /\ pc' = "postReviewComments"
          /\ UNCHANGED failed
  /\ UNCHANGED <<mapperVars, inputVars, packerVars, commentsByCommit,
                 issueComments, allChanges, allComments, cursor, returned>>

\* postReviewComments up to its first loop: the comments grouped by commit,
\* the others in issueComments
PostReviewComments ==
  /\ pc = "postReviewComments"
  /\ LET acc == GroupByCommit(comments, packedCommits)
     IN  /\ commentsByCommit' = acc.commentsByCommit
         /\ issueComments' = acc.issueComments
         /\ pc' = AfterGroup(acc.commentsByCommit, 1)
  /\ cursor' = 1
  /\ UNCHANGED <<mapperVars, inputVars, packerVars, comments, allChanges,
                 allComments, returned, calls, failed>>

\* the first half of a turn of the loop over commentsByCommit: the
\* REQUEST_CHANGES review of the group, when it has such comments
ReviewGroupChanges ==
  /\ pc = "groupChanges"
  /\ LET group == commentsByCommit[cursor]
         groupChanges == GroupChanges(group, changesThreshold)
     IN  IF Len(groupChanges) # 0
         THEN /\ calls' = Append(calls,
                    CreateReviewCall("REQUEST_CHANGES", groupChanges, group.sha))
              /\ allChanges' = allChanges \o groupChanges
         ELSE UNCHANGED <<calls, allChanges>>
  /\ pc' = "groupComments"
  /\ UNCHANGED <<mapperVars, inputVars, packerVars, comments, commentsByCommit,
                 issueComments, allComments, cursor, returned, failed>>

\* the second half: the COMMENT review of the group's remaining comments
ReviewGroupComments ==
  /\ pc = "groupComments"
  /\ LET group == commentsByCommit[cursor]
         groupChanges == GroupChanges(group, changesThreshold)
         groupComments == RemainingComments(group, groupChanges)
     IN  IF Len(groupComments) # 0
         THEN /\ calls' = Append(calls,
                    CreateReviewCall("COMMENT", groupComments, group.sha))
              /\ allComments' = allComments \o groupComments
         ELSE UNCHANGED <<calls, allComments>>
  /\ pc' = AfterGroup(commentsByCommit, cursor + 1)
  /\ cursor' = IF cursor < Len(commentsByCommit) THEN cursor + 1 ELSE 1
  /\ UNCHANGED <<mapperVars, inputVars, packerVars, comments, commentsByCommit,
                 issueComments, allChanges, returned, failed>>

\* one turn of the loop over issueComments
CreateComment ==
  /\ pc = "createComment"
  /\ cursor <= Len(issueComments)
  /\ calls' = Append(calls,
         Call("createComment", IssueCommentBody(issueComments[cursor])))
  /\ cursor' = cursor + 1
  /\ UNCHANGED <<mapperVars, pc, inputVars, packerVars, comments,
                 commentsByCommit, issueComments, allChanges, allComments,
                 returned, failed>>

\* return {reviewChanges, reviewComments, issueComments}
ReturnCounts ==
  /\ pc = "createComment"
  /\ cursor > Len(issueComments)
  /\ returned' = <<[reviewChanges |-> Len(allChanges),
                    reviewComments |-> Len(allComments),
                    issueComments |-> Len(issueComments)]>>
  /\ pc' = "done"
  /\ UNCHANGED <<mapperVars, inputVars, packerVars, comments, commentsByCommit,
                 issueComments, allChanges, allComments, cursor, calls, failed>>


\* most comments of a model response that InitRoute draws
MaxComments == 2

\* a line the mapper finds in PatchA and a line it finds in PatchG
CommentTargets ==
  {[file |-> <<"a">>, line |-> 1, side |-> "RIGHT"],
   [file |-> <<"g">>, line |-> 2, side |-> "LEFT"]}

\* a line of no hunk of PatchA
TargetOutOfRange == [file |-> <<"a">>, line |-> 7, side |-> "RIGHT"]

\* a CodeReviewComment
Comment(sha, target, severity) ==
  [sha |-> sha, file |-> target.file, line |-> target.line,
   side |-> target.side, comment |-> <<"x">>, severity |-> severity]

\* comments on two commits of the comparison and on a sha that is none of them
CommentPool ==
  {Comment(ShaOf(i), t, s) :
     i \in 1..2, t \in CommentTargets, s \in SeverityLevels} \cup
  {Comment(ShaOf(2), TargetOutOfRange, s) : s \in SeverityLevels} \cup
  {Comment(<<"s", "9">>, t, s) :
     t \in {[file |-> <<"a">>, line |-> 1, side |-> "RIGHT"]},
     s \in SeverityLevels}

CommentLists == UNION {[1..n -> CommentPool] : n \in 0..MaxComments}

\* a patch of g too long to fit where the patches of the next commit do
BigLines == 30
FileBigG ==
  [filename |-> <<"g">>,
   patch |-> Join(<<LineHunk1, LineContext, LineDeletion>> \o
                  [k \in 1..BigLines |-> LineAddition])]

\* a commit whose patch for g was skipped by the packer, and one packed whole
PackedA ==
  [commit |-> CommitDetails(1, <<FileA, FileBigG>>), patches |-> <<FileA>>]
PackedAG ==
  [commit |-> CommitDetails(2, <<FileA, FileG>>), patches |-> <<FileA, FileG>>]

PackedLists == {<<>>, <<PackedA, PackedAG>>}

\* postReviewComments(comments, changesThreshold, commits) called by itself
InitRoute ==
  /\ NoMapperCall
  /\ prDetails = [title |-> <<>>, body |-> <<>>]
  /\ commits = <<>>
  /\ NoRun
  /\ tokenLimit = 0
  /\ changesThreshold \in SeverityLevels
  /\ completion = [finish_reason |-> FinishStop, parsed |-> TRUE,
                   comments |-> <<>>]
  /\ prompt = <<>>
  /\ packLog = <<>>
  /\ packedCommits \in PackedLists
  /\ comments \in CommentLists
  /\ PosterStart
  /\ calls = <<>>
  /\ failed = <<>>
  /\ pc = "postReviewComments"

NextRoute ==
  \/ PostReviewComments
  \/ ReviewGroupChanges
  \/ ReviewGroupComments
  \/ CreateComment
  \/ ReturnCounts

SpecRoute == InitRoute /\ [][NextRoute]_vars


\* ------------------------------------------------- run(): failing external calls
\* what a rejected call throws: an Error with a message, or a bare string
Rejections ==
  {[raised |-> TRUE, isError |-> TRUE, message |-> <<"E">>],
   [raised |-> TRUE, isError |-> FALSE, message |-> <<"E">>]}

\* the external call review() is about to issue, if it is at one
HasPendingCall ==
  \/ pc \in {"getPrDetails", "compareCommits", "getCommitDetails",
             "runReviewPrompt"}
  \/ /\ pc = "groupChanges"
     /\ Len(GroupChanges(commentsByCommit[cursor], changesThreshold)) # 0
  \/ /\ pc = "groupComments"
     /\ Len(RemainingComments(commentsByCommit[cursor],
              GroupChanges(commentsByCommit[cursor], changesThreshold))) # 0
  \/ /\ pc = "createComment"
     /\ cursor <= Len(issueComments)

PendingCall ==
  CASE pc = "getPrDetails" -> Call("getPrDetails", <<>>)
    [] pc = "compareCommits" -> Call("compareCommits", <<>>)
    [] pc = "getCommitDetails" ->
         Call("getCommitDetails", commits[Len(packLog) + 1].sha)
    [] pc = "runReviewPrompt" -> Call("runReviewPrompt", prompt)
    [] pc = "groupChanges" ->
         CreateReviewCall("REQUEST_CHANGES",
           GroupChanges(commentsByCommit[cursor], changesThreshold),
           commentsByCommit[cursor].sha)
    [] pc = "groupComments" ->
         CreateReviewCall("COMMENT",
           RemainingComments(commentsByCommit[cursor],
             GroupChanges(commentsByCommit[cursor], changesThreshold)),
           commentsByCommit[cursor].sha)
    [] pc = "createComment" ->
         Call("createComment", IssueCommentBody(issueComments[cursor]))

FailedToCompare ==
  <<"F", "a", "i", "l", "e", "d", " ", "t", "o", " ", "c", "o", "m", "p", "a",
    "r", "e", " ", "c", "o", "m", "m", "i", "t", "s", ":", " ">>

FailedToGetDetails ==
  <<"F", "a", "i", "l", "e", "d", " ", "t", "o", " ", "g", "e", "t", " ", "c",
    "o", "m", "m", "i", "t", " ", "d", "e", "t", "a", "i", "l", "s", ":", " ">>

\* what reaches run(): compareCommits and getCommitDetails catch what the
\* call throws and throw a new Error with their own prefix; the others let
\* it pass
Propagated(op, thrown) ==
  IF op = "compareCommits"
  THEN [raised |-> TRUE, isError |-> TRUE,
        message |-> FailedToCompare \o thrown.message]
  ELSE IF op = "getCommitDetails"
  THEN [raised |-> TRUE, isError |-> TRUE,
        message |-> FailedToGetDetails \o thrown.message]
  ELSE thrown

\* the pending external call rejects; the error leaves review() and run()
\* reports it once
ExternalCallRejects ==
  /\ HasPendingCall
  /\ \E thrown \in Rejections :
       LET call == PendingCall
       IN  /\ calls' = Append(calls, [call EXCEPT !.thrown = thrown])
           /\ failed' = Append(failed,
                               SetFailedMessage(Propagated(call.op, thrown)))
  /\ pc' = "done"
  /\ UNCHANGED <<mapperVars, inputVars, packerVars, routerVars>>

\* the comparisons of a run: none, one or two commits that change a and g
RunCommitLists ==
  {<<>>,
   <<CommitDetails(1, <<FileA, FileG>>)>>,
   <<CommitDetails(1, <<FileA, FileG>>), CommitDetails(2, <<FileA, FileG>>)>>}

\* comments for a changes review, a comment review and the fallback
RunComments ==
  <<Comment(ShaOf(1), [file |-> <<"a">>, line |-> 1, side |-> "RIGHT"], "error"),
    Comment(ShaOf(1), [file |-> <<"a">>, line |-> 1, side |-> "RIGHT"], "info"),
    Comment(ShaOf(1), [file |-> <<"g">>, line |-> 2, side |-> "LEFT"], "info"),
    Comment(<<"s", "9">>, [file |-> <<"a">>, line |-> 1, side |-> "RIGHT"],
            "warning")>>

\* what the model client may hand back
RunCompletions ==
  {[finish_reason |-> FinishLength, parsed |-> FALSE, comments |-> <<>>],
   [finish_reason |-> FinishLength, parsed |-> TRUE, comments |-> RunComments],
   [finish_reason |-> FinishStop, parsed |-> FALSE, comments |-> <<>>],
   [finish_reason |-> FinishStop, parsed |-> TRUE, comments |-> <<>>],
   [finish_reason |-> FinishStop, parsed |-> TRUE, comments |-> RunComments]}

\* review(options) as run() calls it once the inputs are validated
InitRun ==
  /\ NoMapperCall
  /\ prDetails \in PrPool
  /\ commits \in RunCommitLists
  /\ NoRun
  /\ tokenLimit \in {0, 72, 400}
  /\ changesThreshold = "warning"
  /\ completion \in RunCompletions
  /\ ReviewStart
  /\ pc = "getPrDetails"

NextRun ==
  \/ GetPrDetails
  \/ CompareCommits
  \/ GetCommitDetails
  \/ RunReviewPrompt
  \/ PostReviewComments
  \/ ReviewGroupChanges
  \/ ReviewGroupComments
  \/ CreateComment
  \/ ReturnCounts
  \/ ExternalCallRejects

SpecRun == InitRun /\ [][NextRun]_vars


\* ------------------------------------------------- run(): input validation
\* the texts of the severity levels
SeverityTexts ==
  [info |-> <<"i", "n", "f", "o">>,
   warning |-> <<"w", "a", "r", "n", "i", "n", "g">>,
   error |-> <<"e", "r", "r", "o", "r">>]

\* the defaults of the inputs: "error", "medium", "50000", "100",
\* "2024-12-01-preview"
Defaults ==
  [severity |-> <<"e", "r", "r", "o", "r">>,
   reasoningEffort |-> <<"m", "e", "d", "i", "u", "m">>,
   tokenLimit |-> <<"5", "0", "0", "0", "0">>,
   commitLimit |-> <<"1", "0", "0">>,
   azureOpenAIVersion |->
     <<"2", "0", "2", "4", "-", "1", "2", "-", "0", "1", "-", "p", "r", "e",
       "v", "i", "e", "w">>]

\* core.getInput(name) || fallback: the empty text gives way to the fallback
OrDefault(text, fallback) == IF text = <<>> THEN fallback ELSE text

\* the messages run() gives to setFailed, by the check that fails; those
\* that end with ": " are followed by the input
FailureText ==
  [severity |->
     <<"I", "n", "v", "a", "l", "i", "d", " ", "s", "e", "v", "e", "r", "i",
       "t", "y", ":", " ">>,
   reasoningEffort |->
     <<"I", "n", "v", "a", "l", "i", "d", " ", "r", "e", "a", "s", "o", "n",
       "i", "n", "g", " ", "e", "f", "f", "o", "r", "t", ":", " ">>,
   tokenLimit |->
     <<"I", "n", "v", "a", "l", "i", "d", " ", "t", "o", "k", "e", "n", " ",
       "l", "i", "m", "i", "t", ":", " ">>,
   commitLimit |->
     <<"I", "n", "v", "a", "l", "i", "d", " ", "c", "o", "m", "m", "i", "t",
       " ", "l", "i", "m", "i", "t", ":", " ">>,
   githubToken |->
     <<"M", "i", "s", "s", "i", "n", "g", " ", "G", "I", "T", "H", "U", "B",
       "_", "T", "O", "K", "E", "N", " ", "i", "n", " ", "e", "n", "v", "i",
       "r", "o", "n", "m", "e", "n", "t", ".">>,
   endpoint |->
     <<"I", "n", "v", "a", "l", "i", "d", " ", "A", "z", "u", "r", "e", " ",
       "O", "p", "e", "n", "A", "I", " ", "e", "n", "d", "p", "o", "i", "n",
       "t", ":", " ">>,
   deployment |->
     <<"I", "n", "v", "a", "l", "i", "d", " ", "A", "z", "u", "r", "e", " ",
       "O", "p", "e", "n", "A", "I", " ", "d", "e", "p", "l", "o", "y", "m",
       "e", "n", "t", ":", " ">>,
   apiKey |->
     <<"I", "n", "v", "a", "l", "i", "d", " ", "A", "z", "u", "r", "e", " ",
       "O", "p", "e", "n", "A", "I", " ", "A", "P", "I", " ", "k", "e", "y">>,
   apiVersion |->
     <<"I", "n", "v", "a", "l", "i", "d", " ", "A", "z", "u", "r", "e", " ",
       "O", "p", "e", "n", "A", "I", " ", "A", "P", "I", " ", "v", "e", "r",
       "s", "i", "o", "n", ":", " ">>,
   baseOrHead |->
     <<"M", "i", "s", "s", "i", "n", "g", " ", "b", "a", "s", "e", " ", "o",
       "r", " ", "h", "e", "a", "d", " ", "s", "h", "a", " ", "t", "o", " ",
       "r", "e", "v", "i", "e", "w", ".">>]

\* index of the first character of s at or after k that is no white space,
\* which parseInt skips
RECURSIVE SkipWhiteSpace(_, _)
SkipWhiteSpace(s, k) ==
  IF k <= Len(s) /\ s[k] \in {" ", "\t", NL} THEN SkipWhiteSpace(s, k + 1)
  ELSE k

\* parseInt(text, 10): white space, an optional sign, then the longest run
\* of digits; NaN when there is no digit there
parseInt(text) ==
  LET start == SkipWhiteSpace(text, 1)
      signed == start <= Len(text) /\ text[start] \in {"-", "+"}
      first == IF signed THEN start + 1 ELSE start
      last == DigitRunEnd(text, first)
      magnitude == ParseInt(text, first, last)
  IN  IF last < first THEN [isNaN |-> TRUE, num |-> 0]
      ELSE [isNaN |-> FALSE,
            num |-> IF signed /\ text[start] = "-" THEN -magnitude
                    ELSE magnitude]

\* ["info", "warning", "error"].includes(severity)
isValidSeverityLevel(severity) ==
  \E level \in SeverityLevels : SeverityTexts[level] = severity

\* ["low", "medium", "high"].includes(reasoningEffort)
isValidReasoningEffort(reasoningEffort) ==
  reasoningEffort \in
    {<<"l", "o", "w">>, <<"m", "e", "d", "i", "u", "m">>, <<"h", "i", "g", "h">>}

\* !isNaN(num) && num > 0
isValidTokenLimit(limit) ==
  LET parsed == parseInt(limit) IN ~parsed.isNaN /\ parsed.num > 0

\* !isNaN(num) && num > 0 && num <= 100
isValidCommitLimit(limit) ==
  LET parsed == parseInt(limit)
  IN  ~parsed.isNaN /\ parsed.num > 0 /\ parsed.num <= 100

isValidAzureEndpoint(endpoint) == Len(endpoint) > 0

isValidAzureDeployment(deployment) == Len(deployment) > 0

isValidAzureApiKey(apiKey) == Len(apiKey) > 0

isValidAzureApiVersion(apiVersion) == Len(apiVersion) > 0

\* the severity level that a valid text names
SeverityLevelOf(text) ==
  CHOOSE level \in SeverityLevels : SeverityTexts[level] = text

\* a run() that goes on without a token
MissingTokenNever(e) == FALSE

\* !githubToken: the variable is unset or empty
MissingToken(e) == e.GITHUB_TOKEN = <<>>

\* base and head as run() settles them: the inputs, or, when both are empty,
\* the shas of the pull_request event
BaseAndHead(e) ==
  IF e.base = <<>> /\ e.head = <<>>
  THEN IF e.action = "opened"
       THEN [base |-> e.payload.prBase, head |-> e.payload.prHead]
       ELSE IF e.action = "synchronize"
       THEN [base |-> e.payload.before, head |-> e.payload.after]
       ELSE [base |-> e.base, head |-> e.head]
  ELSE [base |-> e.base, head |-> e.head]

\* run() stopped by a check: the message given to setFailed
Rejected(message) == [ok |-> FALSE, message |-> message, options |-> <<>>]

\* run() up to the call of review: the first check that fails, or the
\* options review is called with
ValidateInputs(e) ==
  LET changesThresholdInput == OrDefault(e.severity, Defaults.severity)
      reasoningEffort == OrDefault(e.reasoningEffort, Defaults.reasoningEffort)
      tokenLimitInput == OrDefault(e.tokenLimit, Defaults.tokenLimit)
      commitLimitInput == OrDefault(e.commitLimit, Defaults.commitLimit)
      azureOpenAIVersion == OrDefault(e.azureOpenAIVersion, Defaults.azureOpenAIVersion)
      sha == BaseAndHead(e)
  IN  IF ~isValidSeverityLevel(changesThresholdInput)
      THEN Rejected(FailureText.severity \o changesThresholdInput)
      ELSE IF ~isValidReasoningEffort(reasoningEffort)
      THEN Rejected(FailureText.reasoningEffort \o reasoningEffort)
      ELSE IF ~isValidTokenLimit(tokenLimitInput)
      THEN Rejected(FailureText.tokenLimit \o tokenLimitInput)
      ELSE IF ~isValidCommitLimit(commitLimitInput)
      THEN Rejected(FailureText.commitLimit \o commitLimitInput)
      ELSE IF MissingToken(e)
      THEN Rejected(FailureText.githubToken)
      ELSE IF ~isValidAzureEndpoint(e.azureOpenAIEndpoint)
      THEN Rejected(FailureText.endpoint \o e.azureOpenAIEndpoint)
      ELSE IF ~isValidAzureDeployment(e.azureOpenAIDeployment)
      THEN Rejected(FailureText.deployment \o e.azureOpenAIDeployment)
      ELSE IF ~isValidAzureApiKey(e.azureOpenAIKey)
      THEN Rejected(FailureText.apiKey)
      ELSE IF ~isValidAzureApiVersion(azureOpenAIVersion)
      THEN Rejected(FailureText.apiVersion \o azureOpenAIVersion)
      ELSE IF sha.base = <<>> \/ sha.head = <<>>
      THEN Rejected(FailureText.baseOrHead)
      ELSE [ok |-> TRUE, message |-> <<>>,
            options |->
              <<[base |-> sha.base, head |-> sha.head,
                 tokenLimit |-> parseInt(tokenLimitInput).num,
                 changesThreshold |-> SeverityLevelOf(changesThresholdInput),
                 reasoningEffort |-> reasoningEffort,
                 commitLimit |-> parseInt(commitLimitInput).num]>>]

\* run() from its first statement to setFailed and the return, or to the call
\* of reviewerService.review(options)
Run ==
  /\ pc = "run"
  /\ LET validated == ValidateInputs(env)
     IN  IF validated.ok
         THEN /\ reviewed' = Append(reviewed, validated.options[1])
              /\ tokenLimit' = validated.options[1].tokenLimit
              /\ changesThreshold' = validated.options[1].changesThreshold
              /\ pc' = "getPrDetails"
              /\ UNCHANGED failed
         ELSE /\ failed' = Append(failed, validated.message)
              /\ pc' = "done"
              /\ UNCHANGED <<reviewed, tokenLimit, changesThreshold>>
  /\ UNCHANGED <<mapperVars, prDetails, commits, completion, env, packerVars,
                 routerVars, calls>>

\* the inputs of a run: what the inputs of the action, the environment and
\* the pull_request event may hold; a text is absent or present, a limit may
\* be no number, a number with a tail, zero, negative or too large
Environments ==
  [severity : {<<>>, SeverityTexts.info, <<"x">>},
   reasoningEffort : {<<>>, <<"h", "i", "g", "h">>, <<"x">>},
   tokenLimit : {<<>>, <<"0">>, <<"9", "x">>, <<"x">>, <<"-", "5">>},
   commitLimit : {<<>>, <<"1", "0", "1">>, <<" ", "5">>},
   GITHUB_TOKEN : {<<>>, <<"v">>},
   azureOpenAIEndpoint : {<<>>, <<"v">>},
   azureOpenAIDeployment : {<<>>, <<"v">>},
   azureOpenAIKey : {<<>>, <<"v">>},
   azureOpenAIVersion : {<<>>, <<"v">>},
   base : {<<>>, <<"v">>},
   head : {<<>>, <<"v">>},
   action : {"opened", "synchronize", "closed"},
   payload :
     {[prBase |-> <<>>, prHead |-> <<>>, before |-> <<>>, after |-> <<>>],
      [prBase |-> <<"p">>, prHead |-> <<"q">>, before |-> <<>>,
       after |-> <<>>],
      [prBase |-> <<>>, prHead |-> <<>>, before |-> <<"b">>,
       after |-> <<"a">>]}]

\* run() on every environment, on a pull request whose comparison is empty
InitValidate ==
  /\ NoMapperCall
  /\ env \in Environments
  /\ reviewed = <<>>
  /\ prDetails \in PrPool
  /\ commits = <<>>
  /\ tokenLimit = 0
  /\ changesThreshold = "error"
  /\ completion = [finish_reason |-> FinishStop, parsed |-> TRUE,
                   comments |-> <<>>]
  /\ ReviewStart
  /\ pc = "run"

NextValidate == Run \/ GetPrDetails \/ CompareCommits

SpecValidate == InitValidate /\ [][NextValidate]_vars

\* --------------------------------------------------------------- properties
\* Every patch of Init and InitHunks has its hunks in ascending order, so the
\* properties below are about such patches.

\* position of physical line j: lines down from the first hunk header
OffsetOf(ls, j) == j - FirstHeader(ls)

\* C1: a target line carried on the requested side by physical line j
\* (context or deletion for LEFT, context or addition for RIGHT, numbered by
\* the hunk headers) gets exactly the number of physical lines from the first
\* hunk header down to line j.
C1_PositionOfCarriedLine ==
  pc = "dual" =>
    LET ls == Lines
    IN  \A j \in 1..Len(ls) :
          Carries(ls, j, side, targetLine) =>
            result = Found(OffsetOf(ls, j))

C1_Witness ==
  /\ pc = "dual"
  /\ result.found
  /\ LET ls == Lines
     IN  \E j \in 1..Len(ls) :
           /\ Carries(ls, j, side, targetLine)
           /\ ls[j].kind = "addition"
           /\ \E k \in 1..(j - 1) : InHunk(ls, k) /\ ls[k].kind = "deletion"

\* C2: a target line that no physical line of the patch carries on the
\* requested side gets NotFound.
C2_NotCarriedIsNotFound ==
  pc = "dual" =>
    LET ls == Lines
    IN  (~\E j \in 1..Len(ls) : Carries(ls, j, side, targetLine)) =>
          result = NotFound

\* C3: in a patch of several hunks, the position of a line of a later hunk is
\* the number of non-header lines between the first hunk header and it, plus
\* one slot for every hunk header in between; the zero point stays the first
\* hunk header.
C3_ContinuousAcrossHunks ==
  pc = "dual" =>
    LET ls == Lines
        f  == FirstHeader(ls)
    IN  \A j \in 1..Len(ls) :
          (Carries(ls, j, side, targetLine) /\ HunkOf(ls, j) # f) =>
            /\ result.found
            /\ result.pos =
                 Cardinality({k \in (f + 1)..j : ~ls[k].isHeader})
                 + Cardinality({h \in HeaderIdx(ls) : f < h /\ h < j})

C3_Witness ==
  /\ pc = "dual"
  /\ result = Found(3)
  /\ LET ls == Lines
     IN  \E j \in 1..Len(ls) :
           /\ Carries(ls, j, side, targetLine)
           /\ HunkOf(ls, j) > FirstHeader(ls) + 1

C5_ZeroPoint ==
  pc = "dual" =>
    LET ls == Lines
        f  == FirstHeader(ls)
    IN  (/\ f # 0
         /\ f + 1 <= Len(ls)
         /\ ls[f + 1].kind \in SideKinds(side)
         /\ targetLine = StartOf(ls[f], side)) =>
          result = Found(1)

C5_Witness ==
  /\ pc = "dual"
  /\ result.found
  /\ targetLine > 1
  /\ LET ls == Lines
         f  == FirstHeader(ls)
     IN  /\ f > 1
         /\ f + 1 <= Len(ls)
         /\ ls[f + 1].kind \in SideKinds(side)
         /\ targetLine = StartOf(ls[f], side)

C7_PreHunkImmunity == [][pc' = "prepended" => result' = result]_vars

C7_Witness ==
  /\ pc = "prepended"
  /\ result.found
  /\ LET ls == Lines
     IN  /\ ls[1].kind = "addition"
         /\ ls[2].isHeader
         /\ \E j \in 1..Len(ls) : Carries(ls, j, side, targetLine)

\* C8: a patch with no line that matches the hunk-header grammar gets
\* NotFound for every target line and side.
C8_NoHeaderIsNotFound ==
  pc = "dual" =>
    LET ls == Lines
    IN  HeaderIdx(ls) = {} => result = NotFound

C8_Witness ==
  /\ pc = "dual"
  /\ targetLine = 1
  /\ result = NotFound
  /\ LET ls == Lines
     IN  /\ HeaderIdx(ls) = {}
         /\ \E j \in 1..(Len(ls) - 1) :
              /\ ls[j].kind = "header"
              /\ ls[j + 1].kind \in SideKinds(side)

\* C9: a negative target line gets NotFound, for every patch and side.
C9_NegativeIsNotFound ==
  (pc = "dual" /\ targetLine < 0) => result = NotFound

\* C10: the side-less function returns what the dual-side function returns
\* for RIGHT.
C10_LegacyEqualsRight ==
  (pc = "both" /\ side = "RIGHT") => legacyResult = result


\* ------------------------------------------------- properties of the packer
\* the text of the blocks of a list of patches, in the order of the list
RECURSIVE ConcatBlocks(_)
ConcatBlocks(ps) ==
  IF Len(ps) = 0 THEN <<>> ELSE PatchBlock(Head(ps)) \o ConcatBlocks(Tail(ps))

\* the text of a list of packed commits: each heading, then the used blocks
RECURSIVE ConcatCommits(_)
ConcatCommits(pcs) ==
  IF Len(pcs) = 0 THEN <<>>
  ELSE CommitHeading(Head(pcs).commit) \o ConcatBlocks(Head(pcs).patches) \o
       ConcatCommits(Tail(pcs))

\* a is b with some elements left out
RECURSIVE IsSubsequence(_, _)
IsSubsequence(a, b) ==
  IF Len(a) = 0 THEN TRUE
  ELSE IF Len(b) = 0 THEN FALSE
  ELSE IF Head(a) = Head(b) THEN IsSubsequence(Tail(a), Tail(b))
  ELSE IsSubsequence(a, Tail(b))

\* buildPrompt has set the prompt to the header
PromptStarted ==
  Len(commits) > 0 /\ pc \notin {"getPrDetails", "compareCommits"}

\* the prompt is the header, then heading and used blocks of every packed
\* commit; packed commits and used patches keep the input order
PackedInOrder ==
  /\ prompt = PromptHeader(prDetails) \o ConcatCommits(packedCommits)
  /\ IsSubsequence([k \in 1..Len(packedCommits) |-> packedCommits[k].commit],
                   commits)
  /\ \A k \in 1..Len(packLog) :
       /\ packLog[k].sha = commits[k].sha
       /\ IsSubsequence(packLog[k].usedPatches, commits[k].patches)
  /\ \A k \in 1..Len(packedCommits) :
       \E j \in 1..Len(packLog) :
         /\ packLog[j].packed
         /\ packLog[j].sha = packedCommits[k].commit.sha
         /\ packLog[j].usedPatches = packedCommits[k].patches

\* C11 as stated: the packer never reorders (the prompt is the header, then
\* for every packed commit in input order its heading and the blocks of its
\* used patches in their order; usedPatches is a subsequence of the commit's
\* patches), and the block of a skipped patch occurs nowhere in the prompt.
C11_SkippedBlockNowhere ==
  PromptStarted =>
    /\ PackedInOrder
    /\ \A k \in 1..Len(packLog) :
         \A j \in 1..Len(packLog[k].skippedPatches) :
           ~Includes(prompt, PatchBlock(packLog[k].skippedPatches[j]))

\* C11 amended: the packer never reorders and appends nothing for a skipped
\* patch: the prompt is exactly the header, then for every packed commit in
\* input order its heading and the blocks of its used patches in their
\* order, and usedPatches is a subsequence of the commit's patches.
C11_NeverReorders == PromptStarted => PackedInOrder

\* two blocks fit and the third does not: used = [1,2], skipped = [3]
C11_Witness ==
  /\ pc = "runReviewPrompt"
  /\ \E k \in 1..Len(packLog) :
       /\ Len(packLog[k].usedPatches) = 2
       /\ Len(packLog[k].skippedPatches) = 1
       /\ packLog[k].usedPatches = SubSeq(commits[k].patches, 1, 2)
       /\ packLog[k].skippedPatches = SubSeq(commits[k].patches, 3, 3)


\* --------------------------------------------------- properties of the run
\* not one patch of the comparison is within the limit, even as the only
\* patch under the header and its commit's heading
NoPatchFits ==
  \A k \in 1..Len(commits) :
    \A j \in 1..Len(commits[k].patches) :
      CountTokens(PromptHeader(prDetails) \o CommitHeading(commits[k]) \o
                  PatchBlock(commits[k].patches[j])) > tokenLimit

\* some external call has rejected
SomeCallRejected == \E k \in 1..Len(calls) : calls[k].thrown.raised

\* C12: when no patch of any commit fits within the token limit, or the
\* comparison has no commits, review() never calls runReviewPrompt nor
\* postReviewComments (no review, no issue comment) and, its calls
\* succeeding, ends without reporting a failure.
C12_ExhaustionSkipsModel ==
  NoPatchFits =>
    /\ pc \in {"getPrDetails", "compareCommits", "getCommitDetails", "done"}
    /\ CallsOf("runReviewPrompt") = {}
    /\ CallsOf("createReview") = {}
    /\ CallsOf("createComment") = {}
    /\ returned = <<>>
    /\ (~SomeCallRejected => failed = <<>>)

\* a run over a commit with patches, none of which fits, has ended
C12_Witness ==
  /\ pc = "done"
  /\ NoPatchFits
  /\ failed = <<>>
  /\ Len(packLog) = 1
  /\ ~packLog[1].packed
  /\ Len(packLog[1].skippedPatches) = 2
  /\ CallsOf("runReviewPrompt") = {}


\* ------------------------------------------------- properties of the poster
PackedShas == {packedCommits[k].commit.sha : k \in 1..Len(packedCommits)}

InSeq(x, seq) == \E k \in 1..Len(seq) : seq[k] = x

Count(x, seq) == Cardinality({k \in 1..Len(seq) : seq[k] = x})

\* the comment's commit is packed with a patch for the comment's file
HasFilePatch(c) ==
  \E k \in 1..Len(packedCommits) :
    /\ packedCommits[k].commit.sha = c.sha
    /\ \E j \in 1..Len(packedCommits[k].patches) :
         packedCommits[k].patches[j].filename = c.file

\* ... and the mapper gives a position for the comment's line and side
InRange(c) ==
  \E k \in 1..Len(packedCommits) :
    /\ packedCommits[k].commit.sha = c.sha
    /\ \E j \in 1..Len(packedCommits[k].patches) :
         /\ packedCommits[k].patches[j].filename = c.file
         /\ findPositionInDiff(packedCommits[k].patches[j].patch,
                               c.line, c.side).found

\* info < warning < error
Rank(severity) ==
  CASE severity = "info" -> 1
    [] severity = "warning" -> 2
    [] severity = "error" -> 3

\* the comment as it stands in a review
PayloadOf(c) ==
  [path |-> c.file, line |-> c.line, side |-> c.side, body |-> c.comment]

\* the createReview calls for a commit and an event
ReviewCalls(sha, event) ==
  {k \in CallsOf("createReview") :
     calls[k].arg.commit_id = sha /\ calls[k].arg.event = event}

\* the comment stands in a review of its commit
InReview(c) ==
  \E k \in CallsOf("createReview") :
    calls[k].arg.commit_id = c.sha /\ InSeq(PayloadOf(c), calls[k].arg.comments)

\* C13: a comment whose sha matches none of the packed commits is in no
\* group and no inline review; it is in issueComments and gets an issue
\* comment; no review is tied to a sha that is not packed, and with an empty
\* commit list createReview is never called.
C13_MissingCommitFallsBack ==
  pc # "postReviewComments" =>
    /\ \A k \in 1..Len(comments) :
         comments[k].sha \notin PackedShas =>
           /\ InSeq(comments[k], issueComments)
           /\ \A g \in 1..Len(commentsByCommit) :
                commentsByCommit[g].sha # comments[k].sha
           /\ pc = "done" =>
                \E j \in CallsOf("createComment") :
                  calls[j].arg = IssueCommentBody(comments[k])
    /\ \A k \in CallsOf("createReview") : calls[k].arg.commit_id \in PackedShas
    /\ Len(packedCommits) = 0 => CallsOf("createReview") = {}

\* a comment on an unknown sha next to a comment that got its review
C13_Witness ==
  /\ pc = "done"
  /\ \E k \in 1..Len(comments) : comments[k].sha \notin PackedShas
  /\ CallsOf("createReview") # {}
  /\ CallsOf("createComment") # {}

\* C14: a comment whose commit is found is inline (in its commit's group and
\* in a review of that commit) if and only if the commit has a patch for the
\* comment's file and findPositionInDiff gives a position for its line and
\* side; otherwise it is in issueComments and in no inline review.
C14_InlineIffMapped ==
  pc = "done" =>
    \A k \in 1..Len(comments) :
      LET c == comments[k]
          inRange == InRange(c)
      IN  c.sha \in PackedShas =>
            /\ inRange <=>
                 \E g \in 1..Len(commentsByCommit) :
                   /\ commentsByCommit[g].sha = c.sha
                   /\ InSeq(c, commentsByCommit[g].comments)
            /\ inRange <=> InReview(c)
            /\ ~inRange <=> InSeq(c, issueComments)

\* one comment inline, one on a file without a packed patch, or one on a
\* line the mapper does not find
C14_Witness ==
  /\ pc = "done"
  /\ \E k \in 1..Len(comments) : InRange(comments[k]) /\ InReview(comments[k])
  /\ \E k \in 1..Len(comments) :
       /\ comments[k].sha \in PackedShas
       /\ HasFilePatch(comments[k])
       /\ ~InRange(comments[k])
       /\ InSeq(comments[k], issueComments)


\* the severity is at or above the threshold
AtOrAbove(c) == Rank(c.severity) >= Rank(changesThreshold)

\* the payload a review of a commit and an event has to carry: the in-range
\* comments of the commit on that side of the threshold, in input order
ExpectedReview(sha, event) ==
  LET Belongs(c) ==
        /\ c.sha = sha
        /\ InRange(c)
        /\ AtOrAbove(c) <=> event = "REQUEST_CHANGES"
  IN  ReviewPayload(SelectSeq(comments, Belongs))

ReviewEvents == {"REQUEST_CHANGES", "COMMENT"}

\* C15: with info < warning < error and an inclusive threshold, a comment of
\* a group is among the REQUEST_CHANGES comments, and in the REQUEST_CHANGES
\* review of its commit, exactly when its severity is at or above the
\* threshold, and else among the COMMENT comments and in the COMMENT review
\* of its commit; never both, never neither.
C15_SeverityThreshold ==
  pc = "done" =>
    \A g \in 1..Len(commentsByCommit) :
      LET group == commentsByCommit[g]
          Below(c) == ~AtOrAbove(c)
          changes == SelectSeq(group.comments, AtOrAbove)
          remarks == SelectSeq(group.comments, Below)
      IN  /\ \A k \in 1..Len(group.comments) :
                LET c == group.comments[k]
                IN  /\ AtOrAbove(c) <=> InSeq(c, allChanges)
                    /\ ~AtOrAbove(c) <=> InSeq(c, allComments)
          /\ IF Len(changes) = 0
             THEN ReviewCalls(group.sha, "REQUEST_CHANGES") = {}
             ELSE \E j \in ReviewCalls(group.sha, "REQUEST_CHANGES") :
                    calls[j].arg.comments = ReviewPayload(changes)
          /\ IF Len(remarks) = 0
             THEN ReviewCalls(group.sha, "COMMENT") = {}
             ELSE \E j \in ReviewCalls(group.sha, "COMMENT") :
                    calls[j].arg.comments = ReviewPayload(remarks)

\* a comment at the threshold asks for changes, one below it is a remark
C15_Witness ==
  /\ pc = "done"
  /\ changesThreshold = "warning"
  /\ \E k \in 1..Len(allChanges) : allChanges[k].severity = "warning"
  /\ \E k \in 1..Len(allComments) : allComments[k].severity = "info"

\* the number of comments in the reviews of an event among the first k calls
RECURSIVE PostedInReviews(_, _)
PostedInReviews(k, event) ==
  IF k = 0 THEN 0
  ELSE PostedInReviews(k - 1, event) +
       (IF calls[k].op = "createReview"
        THEN (IF calls[k].arg.event = event
              THEN Len(calls[k].arg.comments) ELSE 0)
        ELSE 0)

\* C16: every input comment goes to exactly one destination, a
\* REQUEST_CHANGES review, a COMMENT review or an issue comment: the counts
\* returned add up to the number of input comments, they are the numbers of
\* comments posted, and each comment is as often in the three lists together
\* as in the input.
C16_ExactlyOneDestination ==
  pc = "done" =>
    /\ Len(returned) = 1
    /\ returned[1].reviewChanges + returned[1].reviewComments +
         returned[1].issueComments = Len(comments)
    /\ returned[1].reviewChanges = PostedInReviews(Len(calls), "REQUEST_CHANGES")
    /\ returned[1].reviewComments = PostedInReviews(Len(calls), "COMMENT")
    /\ returned[1].issueComments = Cardinality(CallsOf("createComment"))
    /\ \A k \in 1..Len(comments) :
         Count(comments[k], comments) =
           Count(comments[k], allChanges) + Count(comments[k], allComments) +
           Count(comments[k], issueComments)

\* one comment in a review, the other in an issue comment
C16_Witness ==
  /\ pc = "done"
  /\ Len(comments) = 2
  /\ Len(returned) = 1
  /\ returned[1].reviewChanges + returned[1].reviewComments = 1
  /\ returned[1].issueComments = 1

\* C17: for every commit sha there is at most one REQUEST_CHANGES review and
\* at most one COMMENT review, tied to that sha; a review carries all and
\* only the in-range comments of its commit and group, each with its file,
\* line, side and body; no review is made for an empty group.
C17_OneReviewPerGroup ==
  /\ \A j \in CallsOf("createReview") :
       /\ Len(calls[j].arg.comments) > 0
       /\ Cardinality(ReviewCalls(calls[j].arg.commit_id,
                                  calls[j].arg.event)) = 1
  /\ pc = "done" =>
       \A sha \in PackedShas \cup {comments[k].sha : k \in 1..Len(comments)} :
         \A event \in ReviewEvents :
           LET expected == ExpectedReview(sha, event)
           IN  IF Len(expected) = 0
               THEN ReviewCalls(sha, event) = {}
               ELSE \E j \in ReviewCalls(sha, event) :
                      calls[j].arg.comments = expected

\* two comments of one commit and one group in a single review
C17_Witness ==
  /\ pc = "done"
  /\ \E j \in CallsOf("createReview") : Len(calls[j].arg.comments) = 2

\* the comment is not posted inline
NotInRange(c) == ~InRange(c)

\* C18: every fallback comment produces exactly one issue comment, in order,
\* whose body contains the comment's file, line, side and text.
C18_FallbackIssueComment ==
  pc = "done" =>
    LET fallback == SelectSeq(comments, NotInRange)
        first == Cardinality(CallsOf("createReview"))
    IN  /\ issueComments = fallback
        /\ Cardinality(CallsOf("createComment")) = Len(fallback)
        /\ \A k \in 1..Len(fallback) :
             LET body == calls[first + k].arg
                 c == fallback[k]
             IN  /\ calls[first + k].op = "createComment"
                 /\ Includes(body, c.file)
                 /\ Includes(body, NumberToStr(c.line))
                 /\ Includes(body, SideText(c.side))
                 /\ Includes(body, c.comment)

\* a comment on the old side of a file without a packed patch has its issue
\* comment
C18_Witness ==
  /\ pc = "done"
  /\ \E k \in 1..Len(issueComments) :
       /\ issueComments[k].side = "LEFT"
       /\ issueComments[k].sha \in PackedShas
  /\ Cardinality(CallsOf("createComment")) = Len(issueComments)


\* runReviewPrompt got its completion from the model client
ModelAnswered ==
  \E k \in CallsOf("runReviewPrompt") : ~calls[k].thrown.raised

\* C19: when the completion's finish reason is not 'stop', runReviewPrompt
\* raises a failure whose message names that reason and hands no comments
\* back, so review() posts nothing: the run ends with that one failure and
\* without a review or an issue comment.
C19_UnfinishedCompletionFails ==
  (ModelAnswered /\ completion.finish_reason # FinishStop) =>
    /\ pc = "done"
    /\ Len(failed) = 1
    /\ Includes(failed[1], completion.finish_reason)
    /\ comments = <<>>
    /\ CallsOf("createReview") = {}
    /\ CallsOf("createComment") = {}
    /\ returned = <<>>

\* a completion cut off by length, though it carries comments
C19_Witness ==
  /\ ModelAnswered
  /\ completion.finish_reason = FinishLength
  /\ Len(completion.comments) > 0
  /\ pc = "done"
  /\ Len(failed) = 1

\* C20: when an external call fails, the run aborts: the failed call is the
\* last call issued, no call is issued twice, and setFailed is called exactly
\* once with exactly the message of the error the call failed with.
C20_FailureAbortsWithOriginalMessage ==
  \A k \in 1..Len(calls) :
    (calls[k].thrown.raised /\ calls[k].thrown.isError) =>
      /\ k = Len(calls)
      /\ pc = "done"
      /\ \A i, j \in 1..Len(calls) :
           (i # j /\ calls[i].op = calls[j].op) =>
             [op |-> calls[i].op, arg |-> calls[i].arg] #
               [op |-> calls[j].op, arg |-> calls[j].arg]
      /\ Len(failed) = 1
      /\ failed[1] = calls[k].thrown.message


\* the model answered and the answer was taken for finished
ModelReturned ==
  \E k \in CallsOf("runReviewPrompt") :
    ~calls[k].thrown.raised /\ completion.finish_reason = FinishStop

\* the poster has been entered or has left a trace
PosterTouched ==
  \/ pc \in {"postReviewComments", "groupChanges", "groupComments",
             "createComment"}
  \/ CallsOf("createReview") # {}
  \/ CallsOf("createComment") # {}
  \/ commentsByCommit # <<>>
  \/ issueComments # <<>>
  \/ returned # <<>>

\* C21: when the model's answer has no comments array or an empty one,
\* review() never calls postReviewComments: no review and no issue comment
\* is created.
C21_NoCommentsNoPosting ==
  (~completion.parsed \/ Len(completion.comments) = 0) => ~PosterTouched

\* the model returned a finished answer with an empty comments array and
\* review() has returned without an error
C21_Witness ==
  /\ pc = "done"
  /\ ModelReturned
  /\ completion.parsed
  /\ Len(completion.comments) = 0
  /\ failed = <<>>
  /\ ~PosterTouched


\* the checks of run() in the order the inputs are validated, each with
\* whether the environment passes it and the message when it does not
ChecksInOrder ==
  LET severity == OrDefault(env.severity, Defaults.severity)
      effort == OrDefault(env.reasoningEffort, Defaults.reasoningEffort)
      tokens == OrDefault(env.tokenLimit, Defaults.tokenLimit)
      commitCount == OrDefault(env.commitLimit, Defaults.commitLimit)
      version == OrDefault(env.azureOpenAIVersion, Defaults.azureOpenAIVersion)
      sha == BaseAndHead(env)
  IN  <<[ok |-> isValidSeverityLevel(severity),
         message |-> FailureText.severity \o severity],
        [ok |-> isValidReasoningEffort(effort),
         message |-> FailureText.reasoningEffort \o effort],
        [ok |-> isValidTokenLimit(tokens),
         message |-> FailureText.tokenLimit \o tokens],
        [ok |-> isValidCommitLimit(commitCount),
         message |-> FailureText.commitLimit \o commitCount],
        [ok |-> env.GITHUB_TOKEN # <<>>,
         message |-> FailureText.githubToken],
        [ok |-> isValidAzureEndpoint(env.azureOpenAIEndpoint),
         message |-> FailureText.endpoint \o env.azureOpenAIEndpoint],
        [ok |-> isValidAzureDeployment(env.azureOpenAIDeployment),
         message |-> FailureText.deployment \o env.azureOpenAIDeployment],
        [ok |-> isValidAzureApiKey(env.azureOpenAIKey),
         message |-> FailureText.apiKey],
        [ok |-> isValidAzureApiVersion(version),
         message |-> FailureText.apiVersion \o version],
        [ok |-> sha.base # <<>> /\ sha.head # <<>>,
         message |-> FailureText.baseOrHead]>>

\* the first check of ChecksInOrder that the environment fails, 0 when it
\* passes them all
FirstFailedCheck ==
  LET checks == ChecksInOrder
  IN  FirstIndex({k \in 1..Len(checks) : ~checks[k].ok})

\* C22: run() validates its inputs in the order severity, reasoningEffort,
\* tokenLimit, commitLimit, GITHUB_TOKEN, endpoint, deployment, key, version,
\* base/head; on the first check that fails it calls setFailed exactly once
\* with that check's message and returns without calling review; review is
\* called, once, only when every check passes and base and head are known.
C22_ValidationOrder ==
  pc # "run" =>
    LET first == FirstFailedCheck
    IN  IF first # 0
        THEN /\ failed = <<ChecksInOrder[first].message>>
             /\ reviewed = <<>>
             /\ calls = <<>>
             /\ pc = "done"
        ELSE /\ failed = <<>>
             /\ Len(reviewed) = 1
             /\ reviewed[1].base # <<>>
             /\ reviewed[1].head # <<>>

\* an environment that passes the four checks of the inputs and has no
\* token, though its endpoint is empty too: run() has reported the token
C22_Witness ==
  /\ pc = "done"
  /\ FirstFailedCheck = 5
  /\ ~isValidAzureEndpoint(env.azureOpenAIEndpoint)
  /\ failed = <<FailureText.githubToken>>
  /\ reviewed = <<>>


\* C23: a match is declared only on an eligible line kind: the physical line
\* at a returned position is a context or deletion line for LEFT, a context
\* or addition line for RIGHT, never a line of the other side and never a
\* line that advanced no counter.
C23_MatchOnlyOnEligibleKind ==
  (pc = "dual" /\ result.found) =>
    LET ls == Lines
        j == FirstHeader(ls) + result.pos
    IN  /\ j \in 1..Len(ls)
        /\ ls[j].kind \in SideKinds(side)


\* --------------------------------------------- properties of the packing
\* buildPrompt has left its loop over the commits of the comparison
PackingEnded == PromptStarted /\ pc \in {"done", "runReviewPrompt"}

\* the commit at index i has been fetched and handed to packCommit
FetchedAndPacked(i) ==
  /\ \E k \in CallsOf("getCommitDetails") : calls[k].arg = commits[i].sha
  /\ i <= Len(packLog)
  /\ packLog[i].sha = commits[i].sha

\* C24: a commit that fits zero patches (every patch overflows, or it has no
\* patches) contributes nothing to the prompt and packing goes on with the
\* next commit: every later commit of the comparison is still fetched and
\* packed, and its fitting patches are included.
C24_ZeroFitCommitIsPassedOver ==
  PackingEnded =>
    \A j \in 1..Len(packLog) :
      Len(packLog[j].usedPatches) = 0 =>
        /\ ~Includes(prompt, CommitHeading(commits[j]))
        /\ \A i \in (j + 1)..Len(commits) :
             /\ FetchedAndPacked(i)
             /\ \A k \in 1..Len(packLog[i].usedPatches) :
                  Includes(prompt, PatchBlock(packLog[i].usedPatches[k]))


\* the blocks that the first n turns of the loop appended to the prompt
RECURSIVE BlocksOf(_, _)
BlocksOf(log, n) ==
  IF n = 0 THEN <<>>
  ELSE BlocksOf(log, n - 1) \o (IF log[n].packed THEN log[n].block ELSE <<>>)

\* the prompt as it stood when the commit at index k was handed to packCommit
AccumulatedBefore(k) == PromptHeader(prDetails) \o BlocksOf(packLog, k - 1)

\* the patches of commit k before its j-th that were marked used
UsedBefore(k, j) ==
  LET IsUsed(p) == InSeq(p, packLog[k].usedPatches)
  IN  SelectSeq(SubSeq(commits[k].patches, 1, j - 1), IsUsed)

\* the text whose size decides about the j-th patch of commit k: the prompt
\* so far, the commit's heading, the blocks of its patches used so far and
\* the block of the patch
PreviewOf(k, j) ==
  AccumulatedBefore(k) \o CommitHeading(commits[k]) \o
  ConcatBlocks(UsedBefore(k, j)) \o PatchBlock(commits[k].patches[j])

\* C25: within a commit the packer is greedy in input order and a skip never
\* aborts the scan: every patch is considered exactly once, it is used when
\* the accumulated text plus its block is within the token limit and skipped
\* otherwise, also after an earlier patch was skipped.
C25_GreedyInOrder ==
  \A k \in 1..Len(packLog) :
    LET ps == commits[k].patches
    IN  /\ Len(packLog[k].checks) = Len(ps)
        /\ \A j \in 1..Len(ps) :
             /\ Count(ps[j], packLog[k].usedPatches) +
                Count(ps[j], packLog[k].skippedPatches) = 1
             /\ InSeq(ps[j], packLog[k].usedPatches) <=>
                  CountTokens(PreviewOf(k, j)) <= tokenLimit

\* the first patch of a commit was skipped and a later, shorter one was used
C25_Witness ==
  \E k \in 1..Len(packLog) :
    /\ Len(commits[k].patches) >= 2
    /\ InSeq(commits[k].patches[1], packLog[k].skippedPatches)
    /\ CountTokens(PreviewOf(k, 1)) > tokenLimit
    /\ \E j \in 2..Len(commits[k].patches) :
         /\ InSeq(commits[k].patches[j], packLog[k].usedPatches)
         /\ CountTokens(PreviewOf(k, j)) <= tokenLimit


\* the calls of the tokenizer, in commit k's turn, that were given the text
\* and the caller's limit and answered that the text is within it
PassedChecks(k, text) ==
  {c \in 1..Len(packLog[k].checks) :
     /\ packLog[k].checks[c].text = text
     /\ packLog[k].checks[c].limit = tokenLimit
     /\ packLog[k].checks[c].check.within}

\* C26: every block the packer appends passed the limit check at the time of
\* inclusion: for each used patch, the prompt so far, the commit block so far
\* and the patch's block were given to the tokenizer with the caller's token
\* limit and found within it; no block is appended without that check.
C26_EveryIncludedBlockChecked ==
  \A k \in 1..Len(packLog) :
    /\ \A j \in 1..Len(commits[k].patches) :
         InSeq(commits[k].patches[j], packLog[k].usedPatches) =>
           PassedChecks(k, PreviewOf(k, j)) # {}
    /\ packLog[k].block =
         CommitHeading(commits[k]) \o ConcatBlocks(packLog[k].usedPatches)
    /\ Len(packLog[k].usedPatches) =
         Cardinality({c \in 1..Len(packLog[k].checks) :
                        packLog[k].checks[c].check.within})

\* a patch of the second commit was used: its preview starts with the prompt
\* that holds the first commit's block
C26_Witness ==
  /\ Len(packLog) = 2
  /\ packLog[1].packed
  /\ Len(packLog[2].usedPatches) > 0
  /\ PassedChecks(2, PreviewOf(2, 1)) # {}
  /\ Len(AccumulatedBefore(2)) > Len(PromptHeader(prDetails))


\* where in the comment list the group of a commit first appears: the index
\* of the first in-range comment on that commit, 0 when there is none
FirstInline(sha) ==
  FirstIndex({k \in 1..Len(comments) :
                comments[k].sha = sha /\ InRange(comments[k])})

\* every review that the comments call for has been created
AllReviewsCreated ==
  \A k \in 1..Len(comments) : InRange(comments[k]) => InReview(comments[k])

\* C27: postReviewComments issues its external calls one after the other in
\* a fixed order: the commit groups in the order in which they first appear
\* in the comment list, within a group the REQUEST_CHANGES review before the
\* COMMENT review, and every issue comment only after all inline reviews.
C27_CallOrder ==
  /\ \A i, j \in 1..Len(calls) :
       i < j =>
         /\ calls[i].op = "createComment" => calls[j].op = "createComment"
         /\ (calls[i].op = "createReview" /\ calls[j].op = "createReview") =>
              LET first == FirstInline(calls[i].arg.commit_id)
                  second == FirstInline(calls[j].arg.commit_id)
              IN  /\ first # 0
                  /\ first <= second
                  /\ first = second =>
                       /\ calls[i].arg.event = "REQUEST_CHANGES"
                       /\ calls[j].arg.event = "COMMENT"
  /\ (pc \in {"createComment", "done"} \/ CallsOf("createComment") # {}) =>
       AllReviewsCreated

\* two groups: the comment on the second commit of the comparison comes
\* first in the list and its review is created first
C27_Witness ==
  /\ pc = "done"
  /\ Len(calls) = 2
  /\ calls[1].op = "createReview"
  /\ calls[2].op = "createReview"
  /\ calls[1].arg.commit_id = ShaOf(2)
  /\ calls[2].arg.commit_id = ShaOf(1)
  /\ comments[1].sha = ShaOf(2)


\* the tokenizer calls of the turns of the loop, in the order they were made
RECURSIVE ChecksOf(_, _)
ChecksOf(log, n) ==
  IF n = 0 THEN <<>> ELSE ChecksOf(log, n - 1) \o log[n].checks

\* the last of the checks that found its text within the limit, 0 if none did
LastPassed(checks) ==
  IF \E c \in 1..Len(checks) : checks[c].check.within
  THEN CHOOSE c \in 1..Len(checks) :
         /\ checks[c].check.within
         /\ \A d \in (c + 1)..Len(checks) : ~checks[d].check.within
  ELSE 0

\* C28: when buildPrompt returns a prompt with at least one packed commit,
\* the prompt is the last preview text that passed the token-limit check, so
\* the prompt sent to the model is within tokenLimit.
C28_PromptIsLastPassedPreview ==
  (PackingEnded /\ Len(packedCommits) > 0) =>
    LET checks == ChecksOf(packLog, Len(packLog))
        last == LastPassed(checks)
    IN  /\ last # 0
        /\ prompt = checks[last].text
        /\ checks[last].limit = tokenLimit
        /\ CountTokens(prompt) <= tokenLimit
        /\ \A k \in CallsOf("runReviewPrompt") : calls[k].arg = prompt

\* two commits are packed and a patch was skipped after the last one used:
\* the last check of all failed, the prompt is an earlier preview
C28_Witness ==
  /\ PackingEnded
  /\ Len(packedCommits) = 2
  /\ Len(packLog[2].skippedPatches) > 0
  /\ LET checks == ChecksOf(packLog, Len(packLog))
     IN  /\ ~checks[Len(checks)].check.within
         /\ LastPassed(checks) # 0
         /\ prompt = checks[LastPassed(checks)].text


\* the comment's commit is packed and has a patch for the comment's file,
\* which the packer skipped: it is not among the patches packed
OnSkippedPatch(c) ==
  \E k \in 1..Len(packedCommits) :
    /\ packedCommits[k].commit.sha = c.sha
    /\ \E j \in 1..Len(packedCommits[k].commit.patches) :
         packedCommits[k].commit.patches[j].filename = c.file
    /\ \A j \in 1..Len(packedCommits[k].patches) :
         packedCommits[k].patches[j].filename # c.file

\* the mapper finds the comment's line in the patch its commit has for the
\* file, packed or not
FoundInCommitPatch(c) ==
  \E k \in 1..Len(packedCommits) :
    /\ packedCommits[k].commit.sha = c.sha
    /\ \E j \in 1..Len(packedCommits[k].commit.patches) :
         /\ packedCommits[k].commit.patches[j].filename = c.file
         /\ findPositionInDiff(packedCommits[k].commit.patches[j].patch,
                               c.line, c.side).found

\* C29: the router validates a comment against the patches packed into the
\* prompt for its commit, not against all patches of the commit: a comment
\* on a file whose patch the packer skipped is in no group and no inline
\* review and becomes an issue comment.
C29_SkippedPatchNeverInline ==
  pc # "postReviewComments" =>
    \A k \in 1..Len(comments) :
      LET c == comments[k]
      IN  OnSkippedPatch(c) =>
            /\ InSeq(c, issueComments)
            /\ ~InReview(c)
            /\ \A g \in 1..Len(commentsByCommit) :
                 ~InSeq(c, commentsByCommit[g].comments)
            /\ pc = "done" =>
                 \E j \in CallsOf("createComment") :
                   calls[j].arg = IssueCommentBody(c)

\* a comment on a line that the skipped patch of its commit does hold has
\* been posted as an issue comment, and no review was created
C29_Witness ==
  /\ pc = "done"
  /\ \E k \in 1..Len(comments) :
       /\ OnSkippedPatch(comments[k])
       /\ FoundInCommitPatch(comments[k])
       /\ \E j \in CallsOf("createComment") :
            calls[j].arg = IssueCommentBody(comments[k])
  /\ CallsOf("createReview") = {}


\* how many patches of commit k had a preview over the limit
OverLimit(k) ==
  Cardinality({j \in 1..Len(commits[k].patches) :
                 CountTokens(PreviewOf(k, j)) > tokenLimit})

\* what packCommit has to log for commit k: that no patch fits, or the
\* number of patches that did not fit, or nothing
ExpectedWarnings(k) ==
  IF OverLimit(k) = Len(commits[k].patches) THEN <<NoPatchesFitWarning>>
  ELSE IF OverLimit(k) > 0
  THEN <<NumberToStr(OverLimit(k)) \o
         <<" ", "p", "a", "t", "c", "h", "e", "s", " ", "d", "i", "d", " ",
           "n", "o", "t", " ", "f", "i", "t", " ", "w", "i", "t", "h", "i",
           "n", " ", "t", "o", "k", "e", "n", "L", "i", "m", "i", "t", " ",
           "=", " ">> \o NumberToStr(tokenLimit) \o <<".">>>>
  ELSE <<>>

\* C30: for every commit passed to packCommit, usedPatches and
\* skippedPatches are disjoint and together hold every patch of the commit
\* exactly once, each list in the patches' original relative order; the
\* skipped count that is logged is the number of patches whose preview
\* exceeded the limit.
C30_UsedSkippedPartition ==
  \A k \in 1..Len(packLog) :
    LET ps == commits[k].patches
        used == packLog[k].usedPatches
        skipped == packLog[k].skippedPatches
    IN  /\ \A i \in 1..Len(used) : ~InSeq(used[i], skipped)
        /\ \A j \in 1..Len(ps) :
             Count(ps[j], used) + Count(ps[j], skipped) = 1
        /\ Len(used) + Len(skipped) = Len(ps)
        /\ IsSubsequence(used, ps)
        /\ IsSubsequence(skipped, ps)
        /\ Len(skipped) = OverLimit(k)
        /\ packLog[k].warnings = ExpectedWarnings(k)

\* of three patches the second is skipped: used = [1, 3], skipped = [2], and
\* the warning tells of one patch
C30_Witness ==
  \E k \in 1..Len(packLog) :
    /\ Len(commits[k].patches) = 3
    /\ packLog[k].usedPatches =
         <<commits[k].patches[1], commits[k].patches[3]>>
    /\ packLog[k].skippedPatches = <<commits[k].patches[2]>>
    /\ packLog[k].warnings = <<DidNotFitWarning(1, tokenLimit)>>

====
